---- MODULE Spec2Model ----
(***************************************************************************)
(* A model of the vhost-user SCSI target: the CDB parser, the block-device *)
(* logical unit, the allocation-length truncating sink, the descriptor     *)
(* chain cursors and the virtio-scsi request/response framing.             *)
(*                                                                         *)
(* Bytes are naturals 0..255, byte strings are sequences of bytes.  A Rust *)
(* index buf[i] is written At(buf, i).  Option<T> is a sequence of length  *)
(* at most one: <<>> is None and <<x>> is Some(x).                         *)
(***************************************************************************)
EXTENDS Integers, Sequences, FiniteSets, TLC

(***************************************************************************)
(* Byte helpers                                                            *)
(***************************************************************************)
Min(a, b) == IF a <= b THEN a ELSE b

Max(a, b) == IF a >= b THEN a ELSE b

At(buf, i) == buf[i + 1]

\* bit k of a byte (b & (1 << k)) != 0
Bit(b, k) == (b \div (2 ^ k)) % 2 = 1

Zeros(n) == [i \in 1..n |-> 0]

Fill(n, b) == [i \in 1..n |-> b]

\* the first n bytes of s (&s[..n]) and the rest (&s[n..])
Take(s, n) == SubSeq(s, 1, n)

Drop(s, n) == SubSeq(s, n + 1, Len(s))

\* uN::to_be_bytes and uN::to_le_bytes, n bytes wide
RECURSIVE to_be_bytes(_, _)
to_be_bytes(v, n) ==
    IF n = 0 THEN <<>> ELSE to_be_bytes(v \div 256, n - 1) \o <<v % 256>>

RECURSIVE to_le_bytes(_, _)
to_le_bytes(v, n) ==
    IF n = 0 THEN <<>> ELSE <<v % 256>> \o to_le_bytes(v \div 256, n - 1)

\* uN::from_be_bytes / from_le_bytes of a byte slice
RECURSIVE from_be_bytes(_)
from_be_bytes(s) ==
    IF s = <<>> THEN 0
    ELSE from_be_bytes(Take(s, Len(s) - 1)) * 256 + s[Len(s)]

RECURSIVE from_le_bytes(_)
from_le_bytes(s) ==
    IF s = <<>> THEN 0
    ELSE s[1] + 256 * from_le_bytes(Drop(s, 1))

\* buf[a..b] in Rust slice notation (b exclusive)
Slice(buf, a, b) == SubSeq(buf, a + 1, b)

RECURSIVE Concat(_)
Concat(ss) ==
    IF ss = <<>> THEN <<>>
    ELSE IF Len(ss) = 1 THEN ss[1]
    ELSE Concat(Take(ss, Len(ss) \div 2)) \o Concat(Drop(ss, Len(ss) \div 2))

SumLen(ss) == Len(Concat(ss))

\* usize::MAX, the bound of a sink without allocation length.  TLC's
\* integers end at 2^31 - 1; every byte count of the model is far below it.
USIZE_MAX == 2147483647

(***************************************************************************)
(* Sense data (scsi/sense.rs)                                              *)
(***************************************************************************)
SenseTriple(sk, asc, ascq) == <<sk, asc, ascq>>

INVALID_COMMAND_OPERATION_CODE == SenseTriple(5, 32, 0)

LOGICAL_BLOCK_ADDRESS_OUT_OF_RANGE == SenseTriple(5, 33, 0)

INVALID_FIELD_IN_CDB == SenseTriple(5, 36, 0)

\* referenced by block_device.rs, absent from sense.rs: 3/11/00
UNRECOVERED_READ_ERROR == SenseTriple(3, 17, 0)

to_fixed_sense(t) ==
    << 112, 0, t[1],
       0, 0, 0, 0,
       10,
       0, 0, 0, 0,
       t[2], t[3],
       0,
       0, 0, 0 >>

(***************************************************************************)
(* CmdOutput (scsi/mod.rs)                                                 *)
(***************************************************************************)
CmdOutput_ok == [status |-> 0, status_qualifier |-> 0, sense |-> <<>>]

check_condition(sense) ==
    [status |-> 2, status_qualifier |-> 0, sense |-> to_fixed_sense(sense)]

(***************************************************************************)
(* CDB parser (scsi/command.rs)                                            *)
(***************************************************************************)
\* impl TryFrom<u8> for ReportLunsSelectReport (TryFromPrimitive)
ReportLunsSelectReport_try_from(val) ==
    CASE val = 0 -> <<"NoWellKnown">>
      [] val = 1 -> <<"WellKnownOnly">>
      [] val = 2 -> <<"All">>
      [] OTHER -> <<>>

\* impl TryFrom<u8> for ModeSensePageControl (TryFromPrimitive)
ModeSensePageControl_try_from(val) ==
    CASE val = 0 -> <<"Current">>
      [] val = 1 -> <<"Changeable">>
      [] val = 2 -> <<"Default">>
      [] val = 3 -> <<"Saved">>
      [] OTHER -> <<>>

PageCode(tag, val) == [tag |-> tag, val |-> val]

\* impl TryFrom<u8> for InquiryPageCode: <<>> is Err(())
InquiryPageCode_try_from(val) ==
    CASE val = 0 -> <<PageCode("SupportedVpdPages", 0)>>
      [] val >= 1 /\ val <= 127 -> <<PageCode("Ascii", val)>>
      [] val = 128 -> <<PageCode("UnitSerialNumber", 0)>>
      [] val = 131 -> <<PageCode("DeviceIdentification", 0)>>
      [] val = 132 -> <<PageCode("SoftwareInterfaceIdentification", 0)>>
      [] val = 133 -> <<PageCode("ManagementNetworkAddresses", 0)>>
      [] val = 134 -> <<PageCode("ExtendedInquiry", 0)>>
      [] val = 135 -> <<PageCode("ModePagePolicy", 0)>>
      [] val = 136 -> <<PageCode("ScsiPorts", 0)>>
      [] val = 137 -> <<PageCode("Ata", 0)>>
      [] val = 138 -> <<PageCode("PowerCondition", 0)>>
      [] val = 139 -> <<PageCode("DeviceConstituents", 0)>>
      [] val = 140 -> <<PageCode("CfaProfile", 0)>>
      [] val = 141 -> <<PageCode("PowerConsumption", 0)>>
      [] val = 143 -> <<PageCode("ThirdPartyCopy", 0)>>
      [] val = 144 -> <<PageCode("PortocolSpecificLogicalUnit", 0)>>
      [] val = 145 -> <<PageCode("ProtocolSpecificPort", 0)>>
      [] val = 146 -> <<PageCode("ScsiFeatureSets", 0)>>
      [] val = 176 -> <<PageCode("BlockLimits", 0)>>
      [] val = 177 -> <<PageCode("BlockDeviceCharacteristics", 0)>>
      [] val = 178 -> <<PageCode("LogicalBlockProvisioning", 0)>>
      [] val = 179 -> <<PageCode("Referrals", 0)>>
      [] val = 181 -> <<PageCode("BlockDeviceCharacteristicsExt", 0)>>
      [] val = 182 -> <<PageCode("ZonedBlockDeviceCharacteristics", 0)>>
      [] val = 183 -> <<PageCode("BlockLimitsExt", 0)>>
      [] val = 184 -> <<PageCode("FormatPresets", 0)>>
      [] OTHER -> <<>>

\* impl From<InquiryPageCode> for u8
InquiryPageCode_into_u8(pc) ==
    CASE pc.tag = "Ascii" -> pc.val
      [] pc.tag = "Ata" -> 137
      [] pc.tag = "BlockDeviceCharacteristics" -> 177
      [] pc.tag = "BlockDeviceCharacteristicsExt" -> 181
      [] pc.tag = "BlockLimits" -> 176
      [] pc.tag = "BlockLimitsExt" -> 183
      [] pc.tag = "CfaProfile" -> 140
      [] pc.tag = "DeviceConstituents" -> 139
      [] pc.tag = "DeviceIdentification" -> 131
      [] pc.tag = "ExtendedInquiry" -> 134
      [] pc.tag = "FormatPresets" -> 184
      [] pc.tag = "LogicalBlockProvisioning" -> 178
      [] pc.tag = "ManagementNetworkAddresses" -> 133
      [] pc.tag = "ModePagePolicy" -> 135
      [] pc.tag = "PowerCondition" -> 138
      [] pc.tag = "PowerConsumption" -> 141
      [] pc.tag = "PortocolSpecificLogicalUnit" -> 144
      [] pc.tag = "ProtocolSpecificPort" -> 145
      [] pc.tag = "Referrals" -> 179
      [] pc.tag = "ScsiFeatureSets" -> 146
      [] pc.tag = "ScsiPorts" -> 136
      [] pc.tag = "SoftwareInterfaceIdentification" -> 132
      [] pc.tag = "SupportedVpdPages" -> 0
      [] pc.tag = "ThirdPartyCopy" -> 143
      [] pc.tag = "UnitSerialNumber" -> 128
      [] pc.tag = "ZonedBlockDeviceCharacteristics" -> 182

Opcode(ty, opcode, sa) == [ty |-> ty, opcode |-> opcode, sa |-> sa]

\* const OPCODES: the (command type, (opcode, service action)) table
OPCODES ==
    << Opcode("TestUnitReady", 0, <<>>),
       Opcode("Inquiry", 18, <<>>),
       Opcode("ModeSense6", 26, <<>>),
       Opcode("ReadCapacity16", 158, <<16>>),
       Opcode("ReportLuns", 160, <<>>),
       Opcode("ReportSupportedOperationCodes", 163, <<12>>) >>

\* The entries block_device.rs dispatches on (Command::ReadCapacity10,
\* Command::Read10) whose table rows are not part of command.rs.
OPCODES_sbc ==
    << Opcode("ReadCapacity10", 37, <<>>),
       Opcode("Read10", 40, <<>>) >>

OpcodeTable == OPCODES \o OPCODES_sbc

ParseErr(e) == [ok |-> FALSE, err |-> e]

TypeOk(ty) == [ok |-> TRUE, ty |-> ty]

\* the predicate of the find() in from_opcode_and_sa
OpcodeMatches(e, cmd_opcode, cmd_sa) ==
    IF e.sa = <<>> THEN cmd_opcode = e.opcode
    ELSE cmd_opcode = e.opcode /\ cmd_sa = e.sa[1]

\* from_opcode_and_sa without the second look at the table: an unknown
\* service action of a known opcode is InvalidCommand, too
from_opcode_and_sa_one_error(cmd_opcode, cmd_sa) ==
    LET hits == {i \in 1..Len(OpcodeTable) :
                     OpcodeMatches(OpcodeTable[i], cmd_opcode, cmd_sa)}
    IN  IF hits # {}
        THEN TypeOk(OpcodeTable[CHOOSE i \in hits : \A j \in hits : i <= j].ty)
        ELSE ParseErr("InvalidCommand")

\* CommandType::from_opcode_and_sa
from_opcode_and_sa(cmd_opcode, cmd_sa) ==
    LET hits == {i \in 1..Len(OpcodeTable) :
                     OpcodeMatches(OpcodeTable[i], cmd_opcode, cmd_sa)}
        is_invalid_sa == \E i \in 1..Len(OpcodeTable) :
                             OpcodeTable[i].opcode = cmd_opcode
    IN  IF hits # {}
        THEN TypeOk(OpcodeTable[CHOOSE i \in hits : \A j \in hits : i <= j].ty)
        ELSE IF is_invalid_sa THEN ParseErr("InvalidField")
             ELSE ParseErr("InvalidCommand")

\* CommandType::from_cdb
from_cdb(cdb) == from_opcode_and_sa(At(cdb, 0), At(cdb, 1) % 32)

\* CommandType::cdb_template: the CDB usage data of each command type
cdb_template(ty) ==
    CASE ty = "TestUnitReady" -> <<0, 0, 0, 0, 0, 4>>
      [] ty = "ReportLuns" ->
            <<160, 0, 255, 0, 0, 0, 255, 255, 255, 255, 0, 4>>
      [] ty = "ReadCapacity16" ->
            <<158, 16, 0, 0, 0, 0, 0, 0, 0, 0, 255, 255, 255, 255, 0, 4>>
      [] ty = "ModeSense6" -> <<26, 8, 255, 255, 255, 4>>
      [] ty = "Inquiry" -> <<18, 1, 255, 255, 255, 4>>
      [] ty = "ReportSupportedOperationCodes" ->
            <<163, 12, 135, 255, 255, 255, 255, 255, 255, 255, 0, 4>>

\* The usage data of the two block commands of OPCODES_sbc (ten-byte CDBs).
cdb_template_sbc(ty) ==
    CASE ty = "ReadCapacity10" -> <<37, 0, 0, 0, 0, 0, 0, 0, 0, 4>>
      [] ty = "Read10" -> <<40, 24, 255, 255, 255, 255, 31, 255, 255, 4>>

CommandType_cdb_template(ty) ==
    IF ty \in {"ReadCapacity10", "Read10"} THEN cdb_template_sbc(ty)
    ELSE cdb_template(ty)

ParseOk(command, allocation_length, naca) ==
    [ok |-> TRUE, command |-> command,
     allocation_length |-> allocation_length, naca |-> naca]

\* the NACA bit of a control byte: (b & 0b0000_0100) != 0
NacaBit(b) == Bit(b, 2)

parse_TestUnitReady(buf) ==
    ParseOk([type |-> "TestUnitReady"], <<>>, NacaBit(At(buf, 5)))

\* the INQUIRY arm with the test of the page code without EVPD inverted
parse_Inquiry_inverted(buf) ==
    IF At(buf, 1) \notin {0, 1} THEN ParseErr("InvalidField")
    ELSE LET evpd == At(buf, 1) = 1
             page_code_raw == At(buf, 2)
             pc == InquiryPageCode_try_from(page_code_raw)
         IN  IF ~evpd /\ page_code_raw = 0 THEN ParseErr("InvalidField")
             ELSE IF evpd /\ pc = <<>> THEN ParseErr("InvalidField")
             ELSE ParseOk([type |-> "Inquiry",
                           page_code |-> IF evpd THEN pc ELSE <<>>],
                          <<from_be_bytes(Slice(buf, 3, 5))>>,
                          NacaBit(At(buf, 5)))

parse_Inquiry(buf) ==
    IF At(buf, 1) \notin {0, 1} THEN ParseErr("InvalidField")
    ELSE LET evpd == At(buf, 1) = 1
             page_code_raw == At(buf, 2)
             pc == InquiryPageCode_try_from(page_code_raw)
         IN  IF ~evpd /\ page_code_raw # 0 THEN ParseErr("InvalidField")
             ELSE IF evpd /\ pc = <<>> THEN ParseErr("InvalidField")
             ELSE ParseOk([type |-> "Inquiry",
                           page_code |-> IF evpd THEN pc ELSE <<>>],
                          <<from_be_bytes(Slice(buf, 3, 5))>>,
                          NacaBit(At(buf, 5)))

parse_ModeSense6(buf) ==
    IF At(buf, 1) \notin {8, 0} THEN ParseErr("InvalidField")
    ELSE LET dbd == At(buf, 1) = 8
             pc == At(buf, 2) \div 64
             page_code == At(buf, 2) % 64
             subpage_code == At(buf, 3)
             mode == CASE page_code = 8 /\ subpage_code = 0 ->
                              <<[sel |-> "Single", page |-> "Caching"]>>
                       [] page_code = 63 /\ subpage_code = 0 ->
                              <<[sel |-> "AllPageZeros", page |-> ""]>>
                       [] OTHER -> <<>>
         IN  IF mode = <<>> THEN ParseErr("InvalidField")
             ELSE IF ModeSensePageControl_try_from(pc) = <<>>
             THEN ParseErr("InvalidField")
             ELSE ParseOk([type |-> "ModeSense6",
                           pc |-> ModeSensePageControl_try_from(pc)[1],
                           mode_page |-> mode[1],
                           dbd |-> dbd],
                          <<At(buf, 4)>>,
                          NacaBit(At(buf, 5)))

parse_ReadCapacity16(buf) ==
    ParseOk([type |-> "ReadCapacity16"],
            <<from_be_bytes(Slice(buf, 10, 14))>>,
            NacaBit(At(buf, 15)))

parse_ReportLuns(buf) ==
    LET sel == ReportLunsSelectReport_try_from(At(buf, 2))
    IN  IF sel = <<>> THEN ParseErr("InvalidField")
        ELSE ParseOk([type |-> "ReportLuns", select_report |-> sel[1]],
                     <<from_be_bytes(Slice(buf, 6, 10))>>,
                     NacaBit(At(buf, 9)))

RsocMode(kind, opcode, sa) == [kind |-> kind, opcode |-> opcode, sa |-> sa]

parse_ReportSupportedOperationCodes(buf) ==
    LET rctd == Bit(At(buf, 2), 7)
        opt == At(buf, 2) % 8
        sa == from_be_bytes(Slice(buf, 4, 6))
        mode == CASE opt = 0 -> <<RsocMode("All", 0, 0)>>
                  [] opt = 1 -> <<RsocMode("OneCommand", At(buf, 3), 0)>>
                  [] opt = 2 -> <<RsocMode("OneServiceAction", At(buf, 3), sa)>>
                  [] opt = 3 ->
                        <<RsocMode("OneCommandOrServiceAction", At(buf, 3), sa)>>
                  [] OTHER -> <<>>
    IN  IF mode = <<>> THEN ParseErr("InvalidField")
        ELSE ParseOk([type |-> "ReportSupportedOperationCodes",
                      rctd |-> rctd, mode |-> mode[1]],
                     <<from_be_bytes(Slice(buf, 6, 10))>>,
                     NacaBit(At(buf, 11)))

\* READ CAPACITY (10): no allocation length, control byte 9.
parse_ReadCapacity10(buf) ==
    ParseOk([type |-> "ReadCapacity10"], <<>>, NacaBit(At(buf, 9)))

\* READ (10): byte 1 bit 4 DPO, bit 3 FUA, bits 7..5 RDPROTECT (must be 0);
\* bytes 2..6 LBA; byte 6 bits 4..0 group number; bytes 7..9 transfer
\* length; control byte 9.
parse_Read10(buf) ==
    IF At(buf, 1) \div 32 # 0 THEN ParseErr("InvalidField")
    ELSE ParseOk([type |-> "Read10",
                  dpo |-> Bit(At(buf, 1), 4),
                  fua |-> Bit(At(buf, 1), 3),
                  lba |-> from_be_bytes(Slice(buf, 2, 6)),
                  group_number |-> At(buf, 6) % 32,
                  transfer_length |-> from_be_bytes(Slice(buf, 7, 9))],
                 <<>>,
                 NacaBit(At(buf, 9)))

\* Cdb::parse
Cdb_parse(buf) ==
    LET ct == from_cdb(buf)
    IN  IF ~ct.ok THEN ParseErr(ct.err)
        ELSE CASE ct.ty = "TestUnitReady" -> parse_TestUnitReady(buf)
               [] ct.ty = "Inquiry" -> parse_Inquiry(buf)
               [] ct.ty = "ModeSense6" -> parse_ModeSense6(buf)
               [] ct.ty = "ReadCapacity16" -> parse_ReadCapacity16(buf)
               [] ct.ty = "ReportLuns" -> parse_ReportLuns(buf)
               [] ct.ty = "ReportSupportedOperationCodes" ->
                      parse_ReportSupportedOperationCodes(buf)
               [] ct.ty = "ReadCapacity10" -> parse_ReadCapacity10(buf)
               [] ct.ty = "Read10" -> parse_Read10(buf)

(***************************************************************************)
(* Descriptor-chain write cursor (virtio.rs)                               *)
(*                                                                         *)
(* The writable descriptors of a chain are descs, a sequence of            *)
(* [len, bad]: bad marks a descriptor whose guest address is invalid, so   *)
(* that a memory write to it fails.  A chain g = [descs, mem, max_written] *)
(* holds the guest memory behind the descriptors (mem, all descriptors one *)
(* after another) and the Rc<Cell<u32>> high-water cell the clones share.  *)
(* A cursor c = [current, offset, written, out]: current is the index of   *)
(* the current descriptor, 0 for None; out records the bytes this cursor   *)
(* has stored by write().                                                  *)
(***************************************************************************)
Ok(n) == [ok |-> TRUE, n |-> n, kind |-> ""]

Err(kind) == [ok |-> FALSE, n |-> 0, kind |-> kind]

RECURSIVE DescBase(_, _)
DescBase(descs, i) ==
    IF i <= 1 THEN 0 ELSE DescBase(descs, i - 1) + descs[i - 1].len

TotalLen(descs) == DescBase(descs, Len(descs) + 1)

\* DescriptorChainRwIter::next after the descriptor at index cur
iter_next(descs, cur) == IF cur >= 1 /\ cur < Len(descs) THEN cur + 1 ELSE 0

Cursor(current, offset, written, out) ==
    [current |-> current, offset |-> offset, written |-> written, out |-> out]

Chain(descs, mem, max_written) ==
    [descs |-> descs, mem |-> mem, max_written |-> max_written]

\* DescriptorChainWriter::new
DescriptorChainWriter_new(descs) ==
    Cursor(IF Len(descs) >= 1 THEN 1 ELSE 0, 0, 0, <<>>)

\* add_written on a cell of the cursor's own: the cell holds what this
\* cursor has written, whatever another clone reached
add_written_own_cell(g, c, n) ==
    [g |-> [g EXCEPT !.max_written = c.written + n],
     c |-> [c EXCEPT !.written = c.written + n]]

\* DescriptorChainWriter::add_written
add_written(g, c, n) ==
    [g |-> [g EXCEPT !.max_written = Max(g.max_written, c.written + n)],
     c |-> [c EXCEPT !.written = c.written + n]]

\* the while loop of skip
RECURSIVE skip_loop(_, _)
skip_loop(descs, c) ==
    IF c.current # 0 /\ c.offset >= descs[c.current].len
    THEN skip_loop(descs,
                   [c EXCEPT !.offset = c.offset - descs[c.current].len,
                             !.current = iter_next(descs, c.current)])
    ELSE c

\* skip that leaves room for the 12 bytes before the sense only, not for
\* the sense area
DescriptorChainWriter_skip_header_only(g, c, bytes) ==
    LET short == Min(bytes, 12)
        a == add_written(g, [c EXCEPT !.offset = c.offset + short], short)
    IN  [g |-> a.g, c |-> skip_loop(g.descs, a.c)]

\* DescriptorChainWriter::skip
DescriptorChainWriter_skip(g, c, bytes) ==
    LET a == add_written(g, [c EXCEPT !.offset = c.offset + bytes], bytes)
    IN  [g |-> a.g, c |-> skip_loop(g.descs, a.c)]

\* residual that counts the whole of the current descriptor, the skipped
\* part included
RECURSIVE residual_loop_whole(_, _, _)
residual_loop_whole(descs, c, ret) ==
    IF c.current # 0
    THEN residual_loop_whole(descs,
                             [c EXCEPT !.offset = 0,
                                       !.current = iter_next(descs, c.current)],
                             ret + descs[c.current].len)
    ELSE [c |-> c, ret |-> ret]

\* DescriptorChainWriter::residual: [c, ret]
RECURSIVE residual_loop(_, _, _)
residual_loop(descs, c, ret) ==
    IF c.current # 0
    THEN residual_loop(descs,
                       [c EXCEPT !.offset = 0,
                                 !.current = iter_next(descs, c.current)],
                       ret + (descs[c.current].len - c.offset))
    ELSE [c |-> c, ret |-> ret]

\* residual that sums without walking: the cursor stays where it was
DescriptorChainWriter_residual_in_place(g, c) ==
    [c |-> c, ret |-> residual_loop(g.descs, c, 0).ret]

DescriptorChainWriter_residual(g, c) == residual_loop(g.descs, c, 0)

\* DescriptorChainWriter::max_written
DescriptorChainWriter_max_written(g) == g.max_written

\* GuestMemory::write of buf at byte position pos (0-based) of mem
MemWrite(mem, pos, buf) ==
    Take(mem, pos) \o buf \o Drop(mem, pos + Len(buf))

\* impl Write for DescriptorChainWriter: write.  [g, c, res]
DescriptorChainWriter_write(g, c, buf) ==
    IF c.current = 0 THEN [g |-> g, c |-> c, res |-> Ok(0)]
    ELSE LET current == g.descs[c.current]
             left_in_descriptor == current.len - c.offset
             to_write == Min(left_in_descriptor, Len(buf))
         IN  IF current.bad
             THEN [g |-> g, c |-> c, res |-> Err("Other")]
             ELSE LET written == to_write
                      mem2 == MemWrite(g.mem,
                                       DescBase(g.descs, c.current) + c.offset,
                                       Take(buf, to_write))
                      off2 == c.offset + written
                      c2 == IF off2 = current.len
                            THEN [c EXCEPT !.current =
                                               iter_next(g.descs, c.current),
                                           !.offset = 0]
                            ELSE [c EXCEPT !.offset = off2]
                      c3 == [c2 EXCEPT !.out = c.out \o Take(buf, written)]
                      a == add_written([g EXCEPT !.mem = mem2], c3, written)
                  IN  [g |-> a.g, c |-> a.c, res |-> Ok(written)]

\* Write::write_all over the cursor: loops on write, Ok(0) is WriteZero
RECURSIVE DescriptorChainWriter_write_all(_, _, _)
RECURSIVE write_all_loop(_, _)
\* the body of the loop once write has returned r
write_all_loop(buf, r) ==
    IF ~r.res.ok THEN r
    ELSE IF r.res.n = 0
    THEN [g |-> r.g, c |-> r.c, res |-> Err("WriteZero")]
    ELSE DescriptorChainWriter_write_all(r.g, r.c, Drop(buf, r.res.n))

DescriptorChainWriter_write_all(g, c, buf) ==
    IF buf = <<>> THEN [g |-> g, c |-> c, res |-> Ok(0)]
    ELSE write_all_loop(buf, DescriptorChainWriter_write(g, c, buf))

(***************************************************************************)
(* Truncating sink (scsi/mod.rs): SilentlyTruncate(inner, remaining) over  *)
(* the write cursor.  A sink s = [g, c, remaining, calls].                 *)
(***************************************************************************)
Sink(g, c, remaining, calls) ==
    [g |-> g, c |-> c, remaining |-> remaining, calls |-> calls]

\* One call of SilentlyTruncate::write as the caller saw it: the length of
\* the buffer, remaining before the call, the bytes handed to the inner
\* sink and the result.
Call(len, rem, given, res) ==
    [len |-> len, rem |-> rem, given |-> given, res |-> res]

\* impl Write for SilentlyTruncate: write.  [s, res]
\* the rest of write once the inner write of len bytes has returned r
SilentlyTruncate_written(s, buf, len, r) ==
    LET log == Append(s.calls, Call(Len(buf), s.remaining, len, r.res))
    IN  IF ~r.res.ok
        THEN [s |-> Sink(r.g, r.c, s.remaining, log), res |-> r.res]
        ELSE [s |-> Sink(r.g, r.c, s.remaining - r.res.n, log),
              res |-> Ok(r.res.n)]

\* SilentlyTruncate::write without the min: the whole buffer is forwarded
SilentlyTruncate_write_unbounded(s, buf) ==
    IF s.remaining = 0
    THEN [s |-> [s EXCEPT !.calls =
                     Append(s.calls, Call(Len(buf), 0, 0, Ok(Len(buf))))],
          res |-> Ok(Len(buf))]
    ELSE SilentlyTruncate_written(
             s, buf, Len(buf), DescriptorChainWriter_write(s.g, s.c, buf))

\* SilentlyTruncate::write without the early return: at remaining = 0 the
\* empty slice goes to the inner sink and its Ok(0) comes back
SilentlyTruncate_write_no_pretend(s, buf) ==
    LET len == Min(Len(buf), s.remaining)
    IN  SilentlyTruncate_written(
            s, buf, len,
            DescriptorChainWriter_write(s.g, s.c, Take(buf, len)))

SilentlyTruncate_write(s, buf) ==
    IF s.remaining = 0
    THEN [s |-> [s EXCEPT !.calls =
                     Append(s.calls, Call(Len(buf), 0, 0, Ok(Len(buf))))],
          res |-> Ok(Len(buf))]
    ELSE LET len == Min(Len(buf), s.remaining)
         IN  SilentlyTruncate_written(
                 s, buf, len,
                 DescriptorChainWriter_write(s.g, s.c, Take(buf, len)))

\* Write::write_all over the truncating sink
RECURSIVE SilentlyTruncate_write_all(_, _)
RECURSIVE SilentlyTruncate_write_all_loop(_, _)
\* the body of the loop once write has returned r
SilentlyTruncate_write_all_loop(buf, r) ==
    IF ~r.res.ok THEN r
    ELSE IF r.res.n = 0 THEN [s |-> r.s, res |-> Err("WriteZero")]
    ELSE SilentlyTruncate_write_all(r.s, Drop(buf, r.res.n))

SilentlyTruncate_write_all(s, buf) ==
    IF buf = <<>> THEN [s |-> s, res |-> Ok(0)]
    ELSE SilentlyTruncate_write_all_loop(buf, SilentlyTruncate_write(s, buf))

\* A run of data_in.write_all(chunk).map_err(DataIn)? over chunks, stopping
\* at the first error.
RECURSIVE WriteChunks(_, _)
RECURSIVE WriteChunks_next(_, _)
\* the `?` on the result r of the writes so far, then the remaining chunks
WriteChunks_next(chunks, r) ==
    IF ~r.res.ok THEN r ELSE WriteChunks(r.s, chunks)

\* (the run is split in halves to keep the evaluation shallow)
WriteChunks(s, chunks) ==
    IF chunks = <<>> THEN [s |-> s, res |-> Ok(0)]
    ELSE IF Len(chunks) = 1 THEN SilentlyTruncate_write_all(s, chunks[1])
    ELSE WriteChunks_next(Drop(chunks, Len(chunks) \div 2),
                          WriteChunks(s, Take(chunks, Len(chunks) \div 2)))

(***************************************************************************)
(* Block-device logical unit (scsi/block_device.rs)                        *)
(*                                                                         *)
(* images is the sequence of backing files, each a byte string; a device   *)
(* holds the index of its file.  env names what the environment does to a  *)
(* command: fault is an I/O error of the backing file ("metadata", "read", *)
(* "sync" or "none"), build says whether integer overflow panics ("debug") *)
(* or wraps ("release"), page_err says whether a mode page that fails to   *)
(* write itself panics or is ignored.                                      *)
(***************************************************************************)
\* block_size: 512 in BlockDevice::new
BLOCK_SIZE == 512

\* BlockDevice::new (File::open opens the image read-only)
BlockDevice_new(file) ==
    [file |-> file, block_size |-> BLOCK_SIZE,
     write_protected |-> FALSE, solid_state |-> FALSE]

set_write_protected(dev, wp) == [dev EXCEPT !.write_protected = wp]

set_solid_state(dev, solid_state) == [dev EXCEPT !.solid_state = solid_state]

\* BlockDevice::size_in_blocks
size_in_blocks(dev, images, env) ==
    LET len == Len(images[dev.file])
    IN  IF env.fault = "metadata" THEN [tag |-> "Err"]
        ELSE IF len % dev.block_size # 0 THEN [tag |-> "Panic"]
        ELSE [tag |-> "Ok", size |-> len \div dev.block_size]

\* BlockDevice::read_blocks: read_exact_at into a buffer of blocks * block_size
read_blocks(dev, images, env, lba, blocks) ==
    LET n == blocks * dev.block_size
        off == lba * dev.block_size
        file == images[dev.file]
    IN  IF env.fault = "read" \/ (n > 0 /\ off + n > Len(file))
        THEN [tag |-> "Err"]
        ELSE [tag |-> "Ok", bytes |-> SubSeq(file, off + 1, off + n)]

\* sync_all replaced by a call that truncates the file
sync_all_truncating(dev, images) == [images EXCEPT ![dev.file] = <<>>]

\* File::sync_all on the backing file: flushes, stores nothing
sync_all(dev, images) == images

\* What a command does after parsing: panic (a failed hope!/assert!/unwrap)
\* before any write, or write chunks one write_all each, then the mode pages,
\* then return final.
Script(panic, chunks, pages, final) ==
    [panic |-> panic, chunks |-> chunks, pages |-> pages, final |-> final]

Panics == Script(TRUE, <<>>, <<>>, CmdOutput_ok)

Writes(chunks, final) == Script(FALSE, chunks, <<>>, final)

\* fn encode_lun
encode_lun(lun) == <<0, lun, 0, 0, 0, 0, 0, 0>>

\* EmulatedTarget::luns: the LUN numbers 0..N-1 in order
Target_luns(target) == [i \in 1..Len(target.luns) |-> i - 1]

ReportLuns_script(cmd, target) ==
    LET luns == Target_luns(target)
    IN  IF \E i \in 1..Len(luns) : luns[i] >= 256 THEN Panics
        ELSE IF cmd.select_report # "NoWellKnown" THEN Panics
        ELSE Writes(<<to_be_bytes(Len(luns) * 8, 4), Zeros(4)>>
                        \o [i \in 1..Len(luns) |-> encode_lun(luns[i])],
                    CmdOutput_ok)

\* size - 1 as the eight big-endian bytes of a u64: <<>> when the
\* subtraction overflows in a build that checks it
final_block_bytes(size, env) ==
    IF size = 0
    THEN IF env.build = "debug" THEN <<>> ELSE Fill(8, 255)
    ELSE to_be_bytes(size - 1, 8)

\* u64 -> u32 try_into().unwrap_or(0xffff_ffff), on big-endian bytes
u32_or_max(b8) ==
    IF Take(b8, 4) = Zeros(4) THEN Drop(b8, 4) ELSE Fill(4, 255)

ReadCapacity10_script(dev, images, env) ==
    LET sz == size_in_blocks(dev, images, env)
    IN  CASE sz.tag = "Err" ->
                Writes(<<>>, check_condition(UNRECOVERED_READ_ERROR))
          [] sz.tag = "Panic" -> Panics
          [] sz.tag = "Ok" ->
                LET fb == final_block_bytes(sz.size, env)
                IN  IF fb = <<>> THEN Panics
                    ELSE Writes(<<u32_or_max(fb),
                                  to_be_bytes(dev.block_size, 4)>>,
                                CmdOutput_ok)

ReadCapacity16_script(dev, images, env) ==
    LET sz == size_in_blocks(dev, images, env)
    IN  CASE sz.tag = "Err" ->
                Writes(<<>>, check_condition(UNRECOVERED_READ_ERROR))
          [] sz.tag = "Panic" -> Panics
          [] sz.tag = "Ok" ->
                LET fb == final_block_bytes(sz.size, env)
                IN  IF fb = <<>> THEN Panics
                    ELSE Writes(<<fb, to_be_bytes(dev.block_size, 4),
                                  <<0, 0>>, <<192, 0>>, Zeros(16)>>,
                                CmdOutput_ok)

\* ModePage::page_length of the caching page (mode_page.rs)
CACHING_PAGE_LENGTH == 18

\* ModePage::ALL_ZERO: every page with subpage 0
ModePage_ALL_ZERO == <<"Caching">>

ModePage_page_length(page) == CACHING_PAGE_LENGTH

\* ModePage::write: page code, page length, then page_length bytes
ModePage_bytes(page) ==
    <<8, CACHING_PAGE_LENGTH>> \o <<4>> \o Zeros(CACHING_PAGE_LENGTH - 1)

RECURSIVE PagesLen(_)
PagesLen(pages) ==
    IF pages = <<>> THEN 0
    ELSE ModePage_page_length(pages[1]) + 2 + PagesLen(Drop(pages, 1))

ModeSense6_script(cmd, dev) ==
    IF cmd.pc # "Current" \/ cmd.dbd THEN Panics
    ELSE LET pages == IF cmd.mode_page.sel = "Single"
                      THEN <<cmd.mode_page.page>>
                      ELSE ModePage_ALL_ZERO
             pages_len == PagesLen(pages)
         IN  IF pages_len > 255 THEN Panics
             ELSE Script(FALSE,
                         << <<pages_len + 3, 0,
                              IF dev.write_protected THEN 144 ELSE 16,
                              0>> >>,
                         [i \in 1..Len(pages) |-> ModePage_bytes(pages[i])],
                         CmdOutput_ok)

\* the Read10 arm with the range check off by one: a read that ends at the
\* last block is refused
Read10_script_off_by_one(cmd, dev, images, env) ==
    IF cmd.group_number # 0 THEN Panics
    ELSE LET sz == size_in_blocks(dev, images, env)
         IN  CASE sz.tag = "Err" ->
                     Writes(<<>>, check_condition(UNRECOVERED_READ_ERROR))
               [] sz.tag = "Panic" -> Panics
               [] sz.tag = "Ok" ->
                     IF cmd.lba + cmd.transfer_length >= sz.size
                     THEN Writes(<<>>, check_condition(
                                           LOGICAL_BLOCK_ADDRESS_OUT_OF_RANGE))
                     ELSE LET rd == read_blocks(dev, images, env, cmd.lba,
                                                cmd.transfer_length)
                          IN  IF rd.tag = "Ok"
                              THEN Writes(<<rd.bytes>>, CmdOutput_ok)
                              ELSE Writes(<<>>, check_condition(
                                                    UNRECOVERED_READ_ERROR))

Read10_script(cmd, dev, images, env) ==
    IF cmd.group_number # 0 THEN Panics
    ELSE LET sz == size_in_blocks(dev, images, env)
         IN  CASE sz.tag = "Err" ->
                     Writes(<<>>, check_condition(UNRECOVERED_READ_ERROR))
               [] sz.tag = "Panic" -> Panics
               [] sz.tag = "Ok" ->
                     IF cmd.lba + cmd.transfer_length > sz.size
                     THEN Writes(<<>>, check_condition(
                                           LOGICAL_BLOCK_ADDRESS_OUT_OF_RANGE))
                     ELSE LET rd == read_blocks(dev, images, env, cmd.lba,
                                                cmd.transfer_length)
                          IN  IF rd.tag = "Ok"
                              THEN Writes(<<rd.bytes>>, CmdOutput_ok)
                              ELSE Writes(<<>>, check_condition(
                                                    UNRECOVERED_READ_ERROR))

\* DeviceType::DirectAccessBlock
DirectAccessBlock == 0

Inquiry_script(cmd, dev) ==
    IF cmd.page_code # <<>>
    THEN LET code == cmd.page_code[1]
             out == CASE code.tag = "SupportedVpdPages" ->
                            << <<InquiryPageCode_into_u8(
                                     PageCode("SupportedVpdPages", 0)),
                                 InquiryPageCode_into_u8(
                                     PageCode("BlockDeviceCharacteristics", 0)),
                                 InquiryPageCode_into_u8(
                                     PageCode("LogicalBlockProvisioning", 0))>> >>
                      [] code.tag = "BlockDeviceCharacteristics" ->
                            << to_be_bytes(IF dev.solid_state THEN 1 ELSE 0, 2)
                                   \o Zeros(58) >>
                      [] code.tag = "LogicalBlockProvisioning" ->
                            << <<0, 228, 2, 0>> >>
                      [] OTHER -> <<>>
         IN  IF out = <<>>
             THEN Writes(<< <<DirectAccessBlock>> >>,
                         check_condition(INVALID_FIELD_IN_CDB))
             ELSE Writes(<< <<DirectAccessBlock>>,
                            <<InquiryPageCode_into_u8(code)>>,
                            to_be_bytes(Len(out[1]), 2),
                            out[1] >>,
                         CmdOutput_ok)
    ELSE Writes(<< <<DirectAccessBlock>>,
                   <<0, 7, 50, 91, 0, 0, 2>>,
                   \* b"rust-vmm"
                   <<114, 117, 115, 116, 45, 118, 109, 109>>,
                   \* b"vhost-user-scsi "
                   <<118, 104, 111, 115, 116, 45, 117, 115, 101, 114, 45,
                     115, 99, 115, 105, 32>>,
                   \* b"v0  "
                   <<118, 48, 32, 32>>,
                   Zeros(22) >>
                    \o [i \in 1..8 |->
                           to_be_bytes(<<192, 1472, 1536, 0, 0, 0, 0, 0>>[i], 2)]
                    \o << Zeros(22) >>,
                CmdOutput_ok)

\* parse_opcode: an opcode without service actions is a Command, one whose
\* table rows carry service actions is a ServiceAction, any other is Invalid
parse_opcode(opcode) ==
    LET rows == {i \in 1..Len(OpcodeTable) : OpcodeTable[i].opcode = opcode}
    IN  IF rows = {} THEN [kind |-> "Invalid"]
        ELSE LET e == OpcodeTable[CHOOSE i \in rows : \A j \in rows : i <= j]
             IN  IF e.sa = <<>> THEN [kind |-> "Command", ty |-> e.ty]
                 ELSE [kind |-> "ServiceAction", opcode |-> opcode]

\* UnparsedServiceAction::parse: Some(type) when (opcode, sa) is a table row
UnparsedServiceAction_parse(opcode, sa) ==
    LET rows == {i \in 1..Len(OpcodeTable) :
                    OpcodeTable[i].opcode = opcode /\ OpcodeTable[i].sa = <<sa>>}
    IN  IF rows = {} THEN <<>>
        ELSE <<OpcodeTable[CHOOSE i \in rows : \A j \in rows : i <= j].ty>>

\* fn one_command_supported
one_command_supported(ty) ==
    << <<0>>, <<3>>,
       to_be_bytes(Len(CommandType_cdb_template(ty)), 2),
       CommandType_cdb_template(ty) >>

\* fn one_command_not_supported
one_command_not_supported == << <<0>>, <<1>>, <<0, 0>> >>

\* fn timeout_descriptor
timeout_descriptor ==
    << to_be_bytes(10, 2), <<0, 0>>, to_be_bytes(0, 4), to_be_bytes(0, 4) >>

Supported(ty, rctd) ==
    Writes(one_command_supported(ty)
               \o (IF rctd THEN timeout_descriptor ELSE <<>>),
           CmdOutput_ok)

NotSupported == Writes(one_command_not_supported, CmdOutput_ok)

\* the eight (or twenty) bytes of one command in the All report
RsocAllEntry(e, rctd) ==
    << <<e.opcode>>, <<0>>,
       to_be_bytes(IF e.sa = <<>> THEN 0 ELSE e.sa[1], 2),
       <<0>>,
       <<(IF rctd THEN 2 ELSE 0) + (IF e.sa # <<>> THEN 1 ELSE 0)>>,
       to_be_bytes(Len(CommandType_cdb_template(e.ty)), 2) >>
        \o (IF rctd THEN timeout_descriptor ELSE <<>>)

\* the report where OneServiceAction on an unknown opcode answers with a
\* 'not supported' descriptor, as OneCommand does
ReportSupportedOperationCodes_script_lenient(cmd) ==
    LET rctd == cmd.rctd
        mode == cmd.mode
        po == parse_opcode(mode.opcode)
        sa_ty == UnparsedServiceAction_parse(mode.opcode, mode.sa)
        InvalidField == Writes(<<>>, check_condition(INVALID_FIELD_IN_CDB))
    IN  CASE mode.kind = "All" ->
                LET cmd_len == IF rctd THEN 20 ELSE 8
                IN  Writes(<<to_be_bytes(Len(OpcodeTable) * cmd_len, 4)>>
                               \o Concat([i \in 1..Len(OpcodeTable) |->
                                             RsocAllEntry(OpcodeTable[i], rctd)]),
                           CmdOutput_ok)
          [] mode.kind = "OneCommand" ->
                (CASE po.kind = "Command" -> Supported(po.ty, rctd)
                   [] po.kind = "ServiceAction" -> InvalidField
                   [] po.kind = "Invalid" -> NotSupported)
          [] mode.kind = "OneServiceAction" ->
                (CASE po.kind = "Command" -> InvalidField
                   [] po.kind = "ServiceAction" ->
                         IF sa_ty # <<>> THEN Supported(sa_ty[1], rctd)
                         ELSE NotSupported
                   [] po.kind = "Invalid" -> NotSupported)
          [] mode.kind = "OneCommandOrServiceAction" ->
                (CASE po.kind = "Command" ->
                         IF mode.sa = 0 THEN Supported(po.ty, rctd)
                         ELSE NotSupported
                   [] po.kind = "ServiceAction" ->
                         IF sa_ty # <<>> THEN Supported(sa_ty[1], rctd)
                         ELSE NotSupported
                   [] po.kind = "Invalid" -> NotSupported)

ReportSupportedOperationCodes_script(cmd) ==
    LET rctd == cmd.rctd
        mode == cmd.mode
        po == parse_opcode(mode.opcode)
        sa_ty == UnparsedServiceAction_parse(mode.opcode, mode.sa)
        InvalidField == Writes(<<>>, check_condition(INVALID_FIELD_IN_CDB))
    IN  CASE mode.kind = "All" ->
                LET cmd_len == IF rctd THEN 20 ELSE 8
                IN  Writes(<<to_be_bytes(Len(OpcodeTable) * cmd_len, 4)>>
                               \o Concat([i \in 1..Len(OpcodeTable) |->
                                             RsocAllEntry(OpcodeTable[i], rctd)]),
                           CmdOutput_ok)
          [] mode.kind = "OneCommand" ->
                (CASE po.kind = "Command" -> Supported(po.ty, rctd)
                   [] po.kind = "ServiceAction" -> InvalidField
                   [] po.kind = "Invalid" -> NotSupported)
          [] mode.kind = "OneServiceAction" ->
                (CASE po.kind = "Command" -> InvalidField
                   [] po.kind = "ServiceAction" ->
                         IF sa_ty # <<>> THEN Supported(sa_ty[1], rctd)
                         ELSE NotSupported
                   [] po.kind = "Invalid" -> InvalidField)
          [] mode.kind = "OneCommandOrServiceAction" ->
                (CASE po.kind = "Command" ->
                         IF mode.sa = 0 THEN Supported(po.ty, rctd)
                         ELSE NotSupported
                   [] po.kind = "ServiceAction" ->
                         IF sa_ty # <<>> THEN Supported(sa_ty[1], rctd)
                         ELSE NotSupported
                   [] po.kind = "Invalid" -> NotSupported)

\* the match on cdb.command in execute_command
Command_script(cmd, dev, target, images, env) ==
    CASE cmd.type = "TestUnitReady" -> Writes(<<>>, CmdOutput_ok)
      [] cmd.type = "ReportLuns" -> ReportLuns_script(cmd, target)
      [] cmd.type = "ReadCapacity10" -> ReadCapacity10_script(dev, images, env)
      [] cmd.type = "ReadCapacity16" -> ReadCapacity16_script(dev, images, env)
      [] cmd.type = "ModeSense6" -> ModeSense6_script(cmd, dev)
      [] cmd.type = "Read10" -> Read10_script(cmd, dev, images, env)
      [] cmd.type = "Inquiry" -> Inquiry_script(cmd, dev)
      [] cmd.type = "ReportSupportedOperationCodes" ->
            ReportSupportedOperationCodes_script(cmd)

\* Result<CmdOutput, CmdError>, or a panic
LuOk(output) == [tag |-> "Ok", output |-> output]

LuDataIn(kind) == [tag |-> "DataIn", kind |-> kind]

LuPanic == [tag |-> "Panic"]

\* the allocation length the sink is bounded by
SinkBound(cdb) ==
    IF cdb.allocation_length = <<>> THEN USIZE_MAX
    ELSE cdb.allocation_length[1]

\* Runs a script over the truncating sink.  [s, result]
\* the mode pages have been written (ModePage::write has no result to
\* propagate), then the final CmdOutput
RunScript_pages(script, env, rp) ==
    IF ~rp.res.ok /\ env.page_err = "panic"
    THEN [s |-> rp.s, result |-> LuPanic]
    ELSE [s |-> rp.s, result |-> LuOk(script.final)]

\* the chunks have been written with result r
RunScript_chunks(script, env, r) ==
    IF ~r.res.ok
    THEN [s |-> r.s, result |-> LuDataIn(r.res.kind)]
    ELSE RunScript_pages(script, env, WriteChunks(r.s, script.pages))

RunScript(script, s, env) ==
    IF script.panic THEN [s |-> s, result |-> LuPanic]
    ELSE RunScript_chunks(script, env, WriteChunks(s, script.chunks))

\* execute_command once the arm of the match has run with result r
execute_command_done(cdb, images, script, r) ==
    [g |-> r.s.g, c |-> r.s.c, images |-> images, cdb |-> cdb,
     calls |-> r.s.calls,
     emit |-> IF script.panic THEN <<>>
              ELSE Concat(script.chunks \o script.pages),
     result |-> r.result]

\* the match on cdb.command, writing through the truncating sink
execute_command_match(cdb, images, script, env, g, c) ==
    execute_command_done(
        cdb, images, script,
        RunScript(script, Sink(g, c, SinkBound(cdb), <<>>), env))

\* execute_command from the result cdb of Cdb::parse on
execute_command_parsed(dev, cdb, target, images, env, g, c) ==
    LET none == [g |-> g, c |-> c, images |-> images, cdb |-> cdb,
                 calls |-> <<>>, emit |-> <<>>]
    IN  IF ~cdb.ok
        THEN none @@
             [result |->
                 IF cdb.err = "InvalidCommand"
                 THEN LuOk(check_condition(INVALID_COMMAND_OPERATION_CODE))
                 ELSE LuOk(check_condition(INVALID_FIELD_IN_CDB))]
        ELSE IF cdb.naca THEN none @@ [result |-> LuPanic]
        ELSE LET cmd == cdb.command
                 images2 == IF cmd.type = "Read10" /\ cmd.fua
                            THEN sync_all(dev, images) ELSE images
             IN  execute_command_match(
                     cdb, images2,
                     Command_script(cmd, dev, target, images2, env),
                     env, g, c)

\* execute_command that insists on a plain header, as the free function of
\* scsi/mod.rs does: hope! on crn, task_attr and prio
BlockDevice_execute_command_hoping(dev, req, target, images, env, g, c) ==
    IF req.crn # 0 \/ req.task_attr # "Simple" \/ req.prio # 0
    THEN [g |-> g, c |-> c, images |-> images,
          cdb |-> [ok |-> FALSE, err |-> "NotParsed"],
          calls |-> <<>>, emit |-> <<>>, result |-> LuPanic]
    ELSE execute_command_parsed(dev, Cdb_parse(req.cdb), target, images, env,
                                g, c)

\* impl LogicalUnit for BlockDevice: execute_command.  g and c are the
\* data_in cursor; the result is [g, c, images, cdb, calls, emit, result].
BlockDevice_execute_command(dev, req, target, images, env, g, c) ==
    execute_command_parsed(dev, Cdb_parse(req.cdb), target, images, env, g, c)

(***************************************************************************)
(* Missing-LUN stub and target dispatch (EmulatedTarget)                   *)
(***************************************************************************)
LOGICAL_UNIT_NOT_SUPPORTED == SenseTriple(5, 37, 0)

\* the standard INQUIRY data after its first byte
StandardInquiryTail ==
    LET s == Inquiry_script([type |-> "Inquiry", page_code |-> <<>>],
                            BlockDevice_new(1))
    IN  Drop(s.chunks, 1)

\* The stub that answers for a LUN the target does not have.
MissingLun_script(cdb, target) ==
    IF ~cdb.ok THEN Writes(<<>>, check_condition(LOGICAL_UNIT_NOT_SUPPORTED))
    ELSE LET cmd == cdb.command
         IN  CASE cmd.type = "ReportLuns" ->
                     LET luns == IF cmd.select_report \in {"NoWellKnown", "All"}
                                 THEN Target_luns(target) ELSE <<>>
                     IN  Writes(<<to_be_bytes(Len(luns) * 8, 4), Zeros(4)>>
                                    \o [i \in 1..Len(luns) |->
                                           encode_lun(luns[i])],
                                CmdOutput_ok)
               [] cmd.type = "Inquiry" ->
                     IF cmd.page_code = <<>>
                     THEN Writes(<< <<127>> >> \o StandardInquiryTail,
                                 CmdOutput_ok)
                     ELSE Writes(<< <<127>>,
                                    <<InquiryPageCode_into_u8(cmd.page_code[1])>>,
                                    <<0, 0>> >>,
                                 CmdOutput_ok)
               [] OTHER ->
                     Writes(<<>>, check_condition(LOGICAL_UNIT_NOT_SUPPORTED))

MissingLun_execute_parsed(cdb, script, images, env, g, c) ==
    execute_command_done(
        cdb, images, script,
        RunScript(script,
                  Sink(g, c, IF cdb.ok THEN SinkBound(cdb) ELSE USIZE_MAX,
                       <<>>),
                  env))

MissingLun_execute_script(cdb, target, images, env, g, c) ==
    MissingLun_execute_parsed(cdb, MissingLun_script(cdb, target), images,
                              env, g, c)

MissingLun_execute_command(req, target, images, env, g, c) ==
    MissingLun_execute_script(Cdb_parse(req.cdb), target, images, env, g, c)

\* EmulatedTarget::execute_command: lun < luns.len() runs that logical unit,
\* any other LUN the stub.  lu names the logical unit that ran (its device,
\* <<>> for the stub).
Target_execute_command(target, lun, req, images, env, g, c) ==
    IF lun < Len(target.luns)
    THEN BlockDevice_execute_command(target.luns[lun + 1], req, target,
                                     images, env, g, c)
             @@ [lu |-> <<target.luns[lun + 1]>>]
    ELSE MissingLun_execute_command(req, target, images, env, g, c)
             @@ [lu |-> <<>>]

(***************************************************************************)
(* Descriptor-chain read cursor (virtio.rs).  r = [current, offset] over   *)
(* the readable descriptors rdescs with their bytes rmem.                  *)
(***************************************************************************)
DescriptorChainReader_new(rdescs) ==
    [current |-> IF Len(rdescs) >= 1 THEN 1 ELSE 0, offset |-> 0]

\* impl Read for DescriptorChainReader: read of a buffer of n bytes.
\* [r, res, bytes]
DescriptorChainReader_read(rdescs, rmem, r, n) ==
    IF r.current = 0 THEN [r |-> r, res |-> Ok(0), bytes |-> <<>>]
    ELSE LET current == rdescs[r.current]
             left_in_descriptor == current.len - r.offset
             to_read == Min(left_in_descriptor, n)
             pos == DescBase(rdescs, r.current) + r.offset
         IN  IF current.bad
             THEN [r |-> r, res |-> Err("Other"), bytes |-> <<>>]
             ELSE [r |-> IF r.offset + to_read = current.len
                         THEN [current |-> iter_next(rdescs, r.current),
                               offset |-> 0]
                         ELSE [r EXCEPT !.offset = r.offset + to_read],
                   res |-> Ok(to_read),
                   bytes |-> SubSeq(rmem, pos + 1, pos + to_read)]

\* Read::read_exact: loops on read, Ok(0) is UnexpectedEof
RECURSIVE DescriptorChainReader_read_exact(_, _, _, _)
DescriptorChainReader_read_exact(rdescs, rmem, r, n) ==
    IF n = 0 THEN [r |-> r, res |-> Ok(0), bytes |-> <<>>]
    ELSE LET one == DescriptorChainReader_read(rdescs, rmem, r, n)
         IN  IF ~one.res.ok THEN one
             ELSE IF one.res.n = 0
             THEN [r |-> one.r, res |-> Err("UnexpectedEof"), bytes |-> <<>>]
             ELSE LET rest == DescriptorChainReader_read_exact(
                                  rdescs, rmem, one.r, n - one.res.n)
                  IN  [r |-> rest.r, res |-> rest.res,
                       bytes |-> one.bytes \o rest.bytes]

(***************************************************************************)
(* Virtio-scsi framing (virtio.rs, main.rs)                                *)
(***************************************************************************)
\* the defaults of the virtio spec
CDB_SIZE == 32

SENSE_SIZE == 96

\* VirtioScsiLun::parse.  Option<VirtioScsiLun>, or a panic of hope!
VirtioScsiLun_parse(bytes) ==
    IF bytes = <<193, 1, 0, 0, 0, 0, 0, 0>> THEN [tag |-> "ReportLuns"]
    ELSE IF At(bytes, 0) = 1
    THEN IF ~Bit(At(bytes, 2), 6) THEN [tag |-> "Panic"]
         ELSE [tag |-> "TargetLun", target |-> At(bytes, 1),
               lun |-> from_be_bytes(<<At(bytes, 2) % 64, At(bytes, 3)>>)]
    ELSE [tag |-> "None"]

\* enum VirtioScsiResponse
VirtioScsiResponse_Ok == 0

VirtioScsiResponse_Overrun == 1

VirtioScsiResponse_BadTarget == 3

Response(response, status, status_qualifier, sense, residual) ==
    [response |-> response, status |-> status,
     status_qualifier |-> status_qualifier, sense |-> sense,
     residual |-> residual]

\* Response::write with the size of the sense buffer as sense_len
Response_bytes_sense_size(resp) ==
    << to_le_bytes(SENSE_SIZE, 4),
       to_le_bytes(resp.residual, 4),
       to_le_bytes(resp.status_qualifier, 2),
       <<resp.status>>,
       <<resp.response>>,
       resp.sense >>

\* Response::write: the write_all calls, in order
Response_bytes(resp) ==
    << to_le_bytes(Len(resp.sense), 4),
       to_le_bytes(resp.residual, 4),
       to_le_bytes(resp.status_qualifier, 2),
       <<resp.status>>,
       <<resp.response>>,
       resp.sense >>

RECURSIVE WriteAllSeq(_, _, _)
RECURSIVE WriteAllSeq_next(_, _)
\* the `?` on the result r of one write_all, then the remaining fields
WriteAllSeq_next(chunks, r) ==
    IF ~r.res.ok THEN r ELSE WriteAllSeq(r.g, r.c, Drop(chunks, 1))

WriteAllSeq(g, c, chunks) ==
    IF chunks = <<>> THEN [g |-> g, c |-> c, res |-> Ok(0)]
    ELSE WriteAllSeq_next(chunks,
                          DescriptorChainWriter_write_all(g, c, chunks[1]))

Response_write(resp, g, writer) == WriteAllSeq(g, writer, Response_bytes(resp))

\* parse_target that drops the LUN number: every request goes to LUN 0
parse_target_lun0(targets, lun) ==
    IF lun.tag = "TargetLun"
    THEN IF lun.target < Len(targets)
         THEN <<[target |-> targets[lun.target + 1], lun |-> 0]>>
         ELSE <<>>
    ELSE <<>>

\* parse_target that also looks the LUN up: a LUN the target does not have
\* is None
parse_target_known_lun(targets, lun) ==
    IF lun.tag = "TargetLun"
    THEN IF lun.target < Len(targets)
               /\ lun.lun < Len(targets[lun.target + 1].luns)
         THEN <<[target |-> targets[lun.target + 1], lun |-> lun.lun]>>
         ELSE <<>>
    ELSE <<>>

\* VhostUserScsiBackend::parse_target: <<>> is None, else <<[target, lun]>>.
\* targets is the backend's vector of targets.
parse_target(targets, lun) ==
    IF lun.tag = "TargetLun"
    THEN IF lun.target < Len(targets)
         THEN <<[target |-> targets[lun.target + 1], lun |-> lun.lun]>>
         ELSE <<>>
    ELSE <<>>

\* the task attribute byte: Simple, Ordered, HeadOfQueue, Aca; <<>> is todo!()
TaskAttr_of(b) ==
    CASE b = 0 -> <<"Simple">>
      [] b = 1 -> <<"Ordered">>
      [] b = 2 -> <<"HeadOfQueue">>
      [] b = 3 -> <<"Aca">>
      [] OTHER -> <<>>

\* header + 96 (default sense size): the bytes body_writer skips
HEADER_AREA == 108

\* What handle_request_queue leaves behind when it does not get as far as
\* the logical unit.
NoExec == [cdb |-> [ok |-> FALSE, err |-> "NotParsed"],
           result |-> [tag |-> "None"], lu |-> <<>>, calls |-> <<>>,
           emit |-> <<>>]

\* What handle_request_queue has done so far: the shared cell g, the two
\* write cursors, the read cursor, the files, the request bytes and the
\* parsed LUN, and what the logical unit did (ex).
Handled(g, writer, body_writer, reader, buf, lun, ex) ==
    [g |-> g, writer |-> writer, body_writer |-> body_writer,
     reader |-> reader, images |-> ex.images, buf |-> buf, lun |-> lun,
     response |-> <<>>, header_writes |-> 0, cdb |-> ex.cdb,
     result |-> ex.result, lu |-> ex.lu, calls |-> ex.calls,
     emit |-> ex.emit]

\* response.write(writer).unwrap() has returned w
handle_request_queue_written(after, response, body_writer, w) ==
    [after EXCEPT !.g = w.g, !.writer = w.c, !.body_writer = body_writer,
                  !.response = <<response>>,
                  !.header_writes = IF w.res.ok THEN 1 ELSE 0]
        @@ [outcome |-> IF w.res.ok THEN "responded" ELSE "panic"]

\* the Response is built (residual has returned res), then written
handle_request_queue_respond(after, response, body_writer) ==
    handle_request_queue_written(
        after, response, body_writer,
        Response_write(response, after.g, after.writer))

\* the match on the output where the WriteZero arm, too, returns without a
\* response
handle_request_queue_output_no_overrun(after, found, ex, res) ==
    IF ~found
    THEN handle_request_queue_respond(
             after,
             Response(VirtioScsiResponse_BadTarget, 0, 0, <<>>, res.ret),
             res.c)
    ELSE CASE ex.result.tag = "Panic" -> after @@ [outcome |-> "panic"]
           [] ex.result.tag = "Ok" ->
                IF ~(Len(ex.result.output.sense) < SENSE_SIZE)
                THEN after @@ [outcome |-> "panic"]
                ELSE handle_request_queue_respond(
                         after,
                         Response(VirtioScsiResponse_Ok,
                                  ex.result.output.status,
                                  ex.result.output.status_qualifier,
                                  ex.result.output.sense, res.ret),
                         res.c)
           [] ex.result.tag = "DataIn" -> after @@ [outcome |-> "dropped"]

\* the match on the output ex of the logical unit; found is whether
\* parse_target returned a target
handle_request_queue_output(after, found, ex, res) ==
    IF ~found
    THEN handle_request_queue_respond(
             after,
             Response(VirtioScsiResponse_BadTarget, 0, 0, <<>>, res.ret),
             res.c)
    ELSE CASE ex.result.tag = "Panic" -> after @@ [outcome |-> "panic"]
           [] ex.result.tag = "Ok" ->
                IF ~(Len(ex.result.output.sense) < SENSE_SIZE)
                THEN after @@ [outcome |-> "panic"]
                ELSE handle_request_queue_respond(
                         after,
                         Response(VirtioScsiResponse_Ok,
                                  ex.result.output.status,
                                  ex.result.output.status_qualifier,
                                  ex.result.output.sense, res.ret),
                         res.c)
           [] ex.result.tag = "DataIn" ->
                IF ex.result.kind = "WriteZero"
                THEN handle_request_queue_respond(
                         after,
                         Response(VirtioScsiResponse_Overrun, 0, 0, <<>>, 0),
                         after.body_writer)
                ELSE after @@ [outcome |-> "dropped"]

\* the logical unit has returned ex
handle_request_queue_executed(writer, reader, buf, lun, env, found, ex) ==
    handle_request_queue_output(
        Handled(ex.g, writer, ex.c, reader, buf, lun, ex),
        found, ex, DescriptorChainWriter_residual(ex.g, ex.c))

\* parse_target has returned pt and body_writer.skip(108) sk
handle_request_queue_target(images, env, writer, reader, buf, lun, req, pt,
                            sk) ==
    handle_request_queue_executed(
        writer, reader, buf, lun, env, pt # <<>>,
        IF pt # <<>>
        THEN Target_execute_command(pt[1].target, pt[1].lun, req, images,
                                    env, sk.g, sk.c)
        ELSE [g |-> sk.g, c |-> sk.c, images |-> images] @@ NoExec)

\* the request bytes buf have been read and the LUN field parsed
handle_request_queue_request(targets, images, env, g, writer, reader, buf,
                             lun) ==
    LET id == from_le_bytes(Slice(buf, 8, 16))
        task_attr == TaskAttr_of(At(buf, 16))
        prio == At(buf, 17)
        crn == At(buf, 18)
        cdb == Slice(buf, 19, 19 + CDB_SIZE)
    IN  IF lun.tag \in {"None", "Panic"} \/ task_attr = <<>>
        THEN Handled(g, writer, writer, reader, buf, [tag |-> "None"],
                     [images |-> images] @@ NoExec)
                 @@ [outcome |-> "panic"]
        ELSE handle_request_queue_target(
                 images, env, writer, reader, buf, lun,
                 [id |-> id, cdb |-> cdb, task_attr |-> task_attr[1],
                  crn |-> crn, prio |-> prio],
                 parse_target(targets, lun),
                 DescriptorChainWriter_skip(g, writer, HEADER_AREA))

\* reader.read_exact(&mut buf) has returned rd
handle_request_queue_read(targets, images, env, g, writer, rd) ==
    IF ~rd.res.ok
    THEN Handled(g, writer, writer, rd.r, <<>>, [tag |-> "None"],
                 [images |-> images] @@ NoExec)
             @@ [outcome |-> "panic"]
    ELSE handle_request_queue_request(
             targets, images, env, g, writer, rd.r, rd.bytes,
             VirtioScsiLun_parse(Slice(rd.bytes, 0, 8)))

\* VhostUserScsiBackend::handle_request_queue on one descriptor chain, with
\* the writer and the reader handle_event makes for it.  outcome is
\* "responded" (the response header was written), "dropped" (the early
\* return without a response) or "panic".
handle_request_queue(targets, images, chain, env) ==
    handle_request_queue_read(
        targets, images, env,
        Chain(chain.wdescs, Fill(TotalLen(chain.wdescs), 256), 0),
        DescriptorChainWriter_new(chain.wdescs),
        DescriptorChainReader_read_exact(
            chain.rdescs, chain.rmem,
            DescriptorChainReader_new(chain.rdescs), 19 + CDB_SIZE))

(***************************************************************************)
(* Inputs: backing images, CDBs, request headers and descriptor chains     *)
(***************************************************************************)
\* the most logical units of a target, and the most blocks of an image
MaxLuns == 2

MaxBlocks == 2

\* the image behind LUN i - 1: blocks blocks, block b filled with 16 i + b
Image(i, blocks) ==
    [k \in 1..(blocks * BLOCK_SIZE) |-> 16 * i + ((k - 1) \div BLOCK_SIZE)]

\* main: one BlockDevice per image, the flags of the command line on each
MakeTarget(n, read_only, solid_state) ==
    [luns |-> [i \in 1..n |->
                  set_solid_state(
                      set_write_protected(BlockDevice_new(i), read_only),
                      solid_state)]]

Pad(cdb) == cdb \o Zeros(CDB_SIZE - Len(cdb))

Cdb6(op, b1, b2, b3, b4, ctl) == <<op, b1, b2, b3, b4, ctl>>

\* REPORT LUNS: select report, allocation length (low two bytes), control
CdbReportLuns(sel, al_hi, al_lo, ctl) ==
    <<160, 0, sel, 0, 0, 0, 0, 0, al_hi, al_lo, 0, ctl>>

\* SERVICE ACTION IN (16) / READ CAPACITY (16)
CdbReadCapacity16(sa, al, ctl) ==
    <<158, sa, 0, 0, 0, 0, 0, 0, 0, 0, 0, 0, 0, al, 0, ctl>>

\* READ (10)
CdbRead10(flags, lba, group, len, ctl) ==
    <<40, flags, 0, 0, 0, lba, group, 0, len, ctl>>

\* MAINTENANCE IN / REPORT SUPPORTED OPERATION CODES
CdbRsoc(sa, opts, opcode, rsa, al, ctl) ==
    <<163, sa, opts, opcode, 0, rsa, 0, 0, 0, al, 0, ctl>>

TestUnitReadyCdbs ==
    { Cdb6(0, 0, 0, 0, 0, 0), Cdb6(0, 0, 0, 0, 0, 4) }

ReportLunsCdbs ==
    { CdbReportLuns(0, 1, 0, 0), CdbReportLuns(0, 0, 4, 0),
      CdbReportLuns(0, 0, 10, 0), CdbReportLuns(0, 0, 0, 0),
      CdbReportLuns(1, 1, 0, 0), CdbReportLuns(3, 1, 0, 0),
      CdbReportLuns(0, 1, 0, 4) }

ReadCapacityCdbs ==
    { CdbReadCapacity16(16, 32, 0), CdbReadCapacity16(16, 8, 0),
      CdbReadCapacity16(16, 12, 0), CdbReadCapacity16(17, 32, 0),
      CdbReadCapacity16(16, 32, 4), CdbReadCapacity16(16, 0, 0),
      <<37, 0, 0, 0, 0, 0, 0, 0, 0, 0>> }

ModeSenseCdbs ==
    { Cdb6(26, 0, 8, 0, 255, 0), Cdb6(26, 0, 63, 0, 255, 0),
      Cdb6(26, 0, 8, 0, 4, 0), Cdb6(26, 0, 8, 0, 10, 0),
      Cdb6(26, 0, 0, 0, 0, 0), Cdb6(26, 8, 8, 0, 255, 0),
      Cdb6(26, 0, 72, 0, 255, 0), Cdb6(26, 1, 8, 0, 255, 0),
      Cdb6(26, 0, 8, 1, 255, 0) }

InquiryCdbs ==
    { Cdb6(18, 0, 0, 0, 96, 0), Cdb6(18, 0, 0, 0, 36, 0),
      Cdb6(18, 0, 0, 0, 0, 0), Cdb6(18, 1, 0, 0, 255, 0),
      Cdb6(18, 1, 177, 0, 255, 0), Cdb6(18, 1, 178, 0, 255, 0),
      Cdb6(18, 1, 177, 0, 3, 0), Cdb6(18, 1, 128, 0, 255, 0),
      Cdb6(18, 1, 128, 0, 0, 0), Cdb6(18, 1, 1, 0, 255, 0),
      Cdb6(18, 1, 142, 0, 255, 0), Cdb6(18, 0, 128, 0, 255, 0),
      Cdb6(18, 2, 0, 0, 255, 0), Cdb6(18, 0, 0, 0, 96, 4) }

Read10Cdbs ==
    { CdbRead10(0, 0, 0, 1, 0), CdbRead10(0, 1, 0, 1, 0),
      CdbRead10(0, 0, 0, 2, 0), CdbRead10(0, 2, 0, 1, 0),
      CdbRead10(0, 1, 0, 2, 0), CdbRead10(0, 0, 0, 0, 0),
      CdbRead10(0, 3, 0, 0, 0), CdbRead10(8, 0, 0, 1, 0),
      CdbRead10(16, 0, 0, 1, 0), CdbRead10(0, 0, 1, 1, 0),
      CdbRead10(32, 0, 0, 1, 0), CdbRead10(0, 0, 0, 1, 4) }

RsocCdbs ==
    { CdbRsoc(12, 0, 0, 0, 255, 0), CdbRsoc(12, 128, 0, 0, 255, 0),
      CdbRsoc(12, 1, 18, 0, 255, 0), CdbRsoc(12, 1, 158, 0, 255, 0),
      CdbRsoc(12, 1, 255, 0, 255, 0), CdbRsoc(12, 129, 18, 0, 255, 0),
      CdbRsoc(12, 2, 163, 12, 255, 0), CdbRsoc(12, 2, 18, 0, 255, 0),
      CdbRsoc(12, 2, 255, 0, 255, 0), CdbRsoc(12, 2, 163, 31, 255, 0),
      CdbRsoc(12, 3, 18, 0, 255, 0), CdbRsoc(12, 3, 18, 1, 255, 0),
      CdbRsoc(12, 3, 163, 12, 255, 0), CdbRsoc(12, 3, 163, 1, 255, 0),
      CdbRsoc(12, 3, 255, 0, 255, 0), CdbRsoc(12, 4, 0, 0, 255, 0),
      CdbRsoc(12, 1, 18, 0, 2, 0), CdbRsoc(12, 1, 40, 0, 255, 0),
      CdbRsoc(12, 0, 0, 0, 255, 4), CdbRsoc(12, 0, 0, 0, 0, 0) }

UnknownCdbs ==
    { Cdb6(255, 0, 0, 0, 0, 0), Cdb6(255, 0, 0, 0, 0, 4),
      CdbRsoc(31, 0, 0, 0, 0, 0), CdbReadCapacity16(0, 0, 0) }

Cdbs ==
    TestUnitReadyCdbs \cup ReportLunsCdbs \cup ReadCapacityCdbs
        \cup ModeSenseCdbs \cup InquiryCdbs \cup Read10Cdbs \cup RsocCdbs
        \cup UnknownCdbs

\* the CDBs sent with every header and every chain layout
FewCdbs ==
    { Cdb6(0, 0, 0, 0, 0, 0), Cdb6(18, 0, 0, 0, 96, 0),
      Cdb6(18, 1, 128, 0, 255, 0), CdbRead10(0, 0, 0, 1, 0),
      CdbReportLuns(0, 0, 10, 0), Cdb6(26, 0, 8, 0, 255, 0),
      Cdb6(255, 0, 0, 0, 0, 0) }

\* the 8-byte LUN field of a request: flat addressing of (target, lun)
LunBytes(target, lun) ==
    <<1, target, 64 + (lun \div 256), lun % 256, 0, 0, 0, 0>>

Luns ==
    { LunBytes(0, 0), LunBytes(0, 1), LunBytes(0, 2), LunBytes(0, 3),
      LunBytes(0, 256), LunBytes(1, 0),
      <<193, 1, 0, 0, 0, 0, 0, 0>>, <<0, 0, 0, 0, 0, 0, 0, 0>>,
      <<1, 0, 0, 0, 0, 0, 0, 0>>, <<1, 0, 64, 1, 0, 0, 0, 9>>,
      <<1, 0, 192, 1, 0, 0, 0, 0>>, <<1, 0, 128, 0, 0, 0, 0, 0>>,
      <<193, 1, 0, 0, 0, 0, 0, 1>> }

\* the 19 + CDB_SIZE bytes of a request
RequestBytes(lun, id, task_attr, prio, crn, cdb) ==
    lun \o to_le_bytes(id, 8) \o <<task_attr, prio, crn>> \o Pad(cdb)

\* every CDB, to LUN 0 of target 0 with a plain header
CdbRequests ==
    { RequestBytes(LunBytes(0, 0), 7, 0, 0, 0, cdb) : cdb \in Cdbs }

\* a few CDBs under every LUN field, task attribute, priority and CRN
HeaderRequests ==
    { RequestBytes(lun, 7, 0, 0, 0, cdb) : lun \in Luns, cdb \in FewCdbs }
        \cup { RequestBytes(LunBytes(0, 0), 7, a[1], a[2], a[3], cdb) :
                   a \in { <<1, 0, 0>>, <<2, 0, 0>>, <<3, 0, 0>>, <<4, 0, 0>>,
                           <<0, 1, 0>>, <<0, 0, 1>> },
                   cdb \in FewCdbs }

D(len) == [len |-> len, bad |-> FALSE]

BadD(len) == [len |-> len, bad |-> TRUE]

\* writable descriptors: room for the header area and two blocks
BigLayout == << D(HEADER_AREA + 2 * BLOCK_SIZE + 4) >>

SplitLayout == << D(HEADER_AREA), D(24) >>

OddLayouts ==
    { << D(60), D(48), D(40), D(600) >>,
      << D(64) >>,
      << D(HEADER_AREA), BadD(600) >>,
      << BadD(HEADER_AREA), D(600) >>,
      << D(8) >>,
      << D(30), D(80) >>,
      << D(HEADER_AREA), D(10) >>,
      << >> }

ChainOf(head, rdescs, request, wdescs) ==
    [rdescs |-> rdescs, rmem |-> request, wdescs |-> wdescs, head |-> head]

WholeRequest == << D(19 + CDB_SIZE) >>

FewRequests ==
    { RequestBytes(LunBytes(0, 0), 7, 0, 0, 0, cdb) : cdb \in FewCdbs }

\* the requests sent in events of two chains and over odd readable layouts
PairRequests ==
    { RequestBytes(LunBytes(0, 0), 7, 0, 0, 0, cdb) :
          cdb \in { CdbRead10(0, 0, 0, 1, 0), Cdb6(18, 1, 128, 0, 255, 0) } }

\* requests for a target that is not there, over every layout
NoTargetRequests ==
    { RequestBytes(lun, 7, 0, 0, 0, Cdb6(18, 0, 0, 0, 96, 0)) :
          lun \in { LunBytes(1, 0), <<193, 1, 0, 0, 0, 0, 0, 0>> } }

OddReadable ==
    { << D(19), D(CDB_SIZE) >>, << D(30) >>, << D(19), BadD(CDB_SIZE) >>,
      << D(19 + CDB_SIZE), D(512) >> }

Chains ==
    { ChainOf(0, WholeRequest, r, BigLayout) : r \in CdbRequests }
        \cup { ChainOf(0, WholeRequest, r, SplitLayout) : r \in HeaderRequests }
        \cup { ChainOf(0, WholeRequest, r, w) :
                   r \in FewRequests, w \in OddLayouts }
        \cup { ChainOf(0, rd, r, BigLayout) :
                   r \in PairRequests, rd \in OddReadable }
        \cup { ChainOf(0, WholeRequest, r, w) :
                   r \in NoTargetRequests, w \in OddLayouts \cup {BigLayout} }

\* the chains of events that carry more than one chain
PairChains(head) ==
    { ChainOf(head, WholeRequest, r, SplitLayout) : r \in PairRequests }
        \cup { ChainOf(head, WholeRequest, r, << D(HEADER_AREA), BadD(600) >>) :
                   r \in PairRequests }

\* events of two chains whose requests differ in their task attribute
AttrBatches ==
    { << ChainOf(1, WholeRequest,
                 RequestBytes(LunBytes(0, 0), 7, a[1], 0, 0,
                              Cdb6(18, 0, 0, 0, 96, 0)),
                 SplitLayout),
         ChainOf(0, WholeRequest,
                 RequestBytes(LunBytes(0, 0), 8, a[2], 0, 0,
                              Cdb6(0, 0, 0, 0, 0, 0)),
                 SplitLayout) >> : a \in { <<0, 2>>, <<1, 0>> } }

Batches ==
    { <<c>> : c \in Chains }
        \cup { <<c1, c2>> : c1 \in PairChains(1), c2 \in PairChains(0) }
        \cup AttrBatches

\* what the control and event queues are given
OtherBatches ==
    { <<c>> : c \in PairChains(0) }
        \cup { <<ChainOf(1, WholeRequest, r, SplitLayout),
                 ChainOf(0, WholeRequest, r, SplitLayout)>> : r \in PairRequests }

Envs ==
    { [fault |-> f, build |-> "release", page_err |-> "ignore"] :
          f \in {"none", "metadata", "read", "sync"} }
        \cup { [fault |-> "none", build |-> "debug", page_err |-> "ignore"],
               [fault |-> "none", build |-> "release", page_err |-> "panic"] }

(***************************************************************************)
(* The daemon as a state machine: one vring event after another            *)
(***************************************************************************)
VARIABLES
    images,        \* the backing files, by file id: their bytes
    target,        \* the one target main registers: its logical units
    device_event,  \* the queue index of the event being handled
    chains,        \* the chains of the event not yet looked at
    used,          \* the used ring of the queue of the event
    signalled,     \* signal_used_queue calls since the guest last looked
    pc,            \* where handle_event stands
    last,          \* what handle_request_queue did with the latest chain,
                   \* and the I/O fault of the backing file, the build and
                   \* the mode-page outcome it ran under
    wchain,        \* a chain under write cursors: its writable descriptors,
                   \* their bytes and the shared high-water cell
    writers,       \* the write cursors over wchain: the original, then
                   \* its clones
    advanced,      \* ghost, per write cursor: the bytes its write calls
                   \* returned plus the bytes its skip calls were given
    rchain,        \* a chain under a read cursor: its readable descriptors
                   \* and their bytes
    reader,        \* the read cursor over rchain
    cursor_call,   \* the latest cursor call and what it returned
    file_pos,      \* the file position of the backing file of LUN 0
    threads        \* READ (10) commands under way on LUN 0, one per
                   \* thread: the command, where it stands, what it has

daemon_vars ==
    <<images, target, device_event, chains, used, signalled, pc, last>>

cursor_vars == <<wchain, writers, advanced, rchain, reader, cursor_call>>

read_vars == <<file_pos, threads>>

vars == <<daemon_vars, cursor_vars, read_vars>>

NoCall == [kind |-> "none"]

\* no cursor outside handle_request_queue
NoCursors ==
    /\ wchain = Chain(<<>>, <<>>, 0)
    /\ writers = <<>>
    /\ advanced = <<>>
    /\ rchain = [rdescs |-> <<>>, rmem |-> <<>>]
    /\ reader = DescriptorChainReader_new(<<>>)
    /\ cursor_call = NoCall

\* the backing file as File::open leaves it, and no command under way
NoThreads ==
    /\ file_pos = 0
    /\ threads = <<>>

NoLast == [outcome |-> "none"]

\* main: the images of the command line become the LUNs of target 0.
\* Image i holds blocks - (i - 1) blocks (none when that is negative).
Init ==
    \E n \in 1..MaxLuns, blocks \in 0..MaxBlocks, flags \in BOOLEAN :
        /\ images = [i \in 1..n |-> Image(i, Max(blocks - (i - 1), 0))]
        /\ target = MakeTarget(n, flags, flags)
        /\ device_event = 0
        /\ chains = <<>>
        /\ used = <<>>
        /\ signalled = 0
        /\ pc = "idle"
        /\ last = NoLast
        /\ NoCursors
        /\ NoThreads

\* handle_event up to the loop: the hope! on the queue index, then the
\* available chains are collected
Kick(q, batch) ==
    /\ pc = "idle"
    /\ device_event' = q
    /\ chains' = batch
    /\ pc' = IF q < 3 THEN "loop" ELSE "aborted"
    /\ UNCHANGED <<images, target, used, signalled, last>>
    /\ UNCHANGED cursor_vars
    /\ UNCHANGED read_vars

\* the loop body where a command that ends in CHECK CONDITION leaves its
\* mark on the device: LUN 0 is write-protected from then on
HandleRequestQueue_latching(env) ==
    /\ pc = "loop"
    /\ chains # <<>>
    /\ device_event = 2
    /\ LET h == handle_request_queue(<<target>>, images, Head(chains), env)
       IN  /\ last' = h @@ env
           /\ images' = h.images
           /\ pc' = IF h.outcome = "panic" THEN "aborted" ELSE "handled"
           /\ target' = IF h.outcome = "responded" /\ h.response[1].status = 2
                        THEN [target EXCEPT
                                  !.luns[1] = set_write_protected(@, TRUE)]
                        ELSE target
    /\ UNCHANGED <<device_event, chains, used, signalled>>
    /\ UNCHANGED cursor_vars
    /\ UNCHANGED read_vars

\* the loop body on the request queue, up to the end of
\* handle_request_queue
HandleRequestQueue(env) ==
    /\ pc = "loop"
    /\ chains # <<>>
    /\ device_event = 2
    /\ LET h == handle_request_queue(<<target>>, images, Head(chains), env)
       IN  /\ last' = h @@ env
           /\ images' = h.images
           /\ pc' = IF h.outcome = "panic" THEN "aborted" ELSE "handled"
    /\ UNCHANGED <<target, device_event, chains, used, signalled>>
    /\ UNCHANGED cursor_vars
    /\ UNCHANGED read_vars

\* the loop body on any other queue: `continue`
IgnoreChain ==
    /\ pc = "loop"
    /\ chains # <<>>
    /\ device_event # 2
    /\ chains' = Tail(chains)
    /\ UNCHANGED <<images, target, device_event, used, signalled, pc, last>>
    /\ UNCHANGED cursor_vars
    /\ UNCHANGED read_vars

\* add_used that puts the completion in front of the ones already there
AddUsed_in_front ==
    /\ pc = "handled"
    /\ used' = << [id |-> Head(chains).head,
                   len |-> DescriptorChainWriter_max_written(last.g),
                   header_writes |-> last.header_writes,
                   outcome |-> last.outcome] >> \o used
    /\ chains' = Tail(chains)
    /\ pc' = "loop"
    /\ UNCHANGED <<images, target, device_event, signalled, last>>
    /\ UNCHANGED cursor_vars
    /\ UNCHANGED read_vars

\* queue.add_used(dc.head_index(), writer.max_written())
AddUsed ==
    /\ pc = "handled"
    /\ used' = Append(used, [id |-> Head(chains).head,
                             len |-> DescriptorChainWriter_max_written(last.g),
                             header_writes |-> last.header_writes,
                             outcome |-> last.outcome])
    /\ chains' = Tail(chains)
    /\ pc' = "loop"
    /\ UNCHANGED <<images, target, device_event, signalled, last>>
    /\ UNCHANGED cursor_vars
    /\ UNCHANGED read_vars

\* vring.signal_used_queue() after the loop
SignalUsed ==
    /\ pc = "loop"
    /\ chains = <<>>
    /\ signalled' = signalled + 1
    /\ pc' = "signalled"
    /\ UNCHANGED <<images, target, device_event, chains, used, last>>
    /\ UNCHANGED cursor_vars
    /\ UNCHANGED read_vars

\* the guest takes the used entries; the daemon waits for the next event
GuestReap ==
    /\ pc = "signalled"
    /\ used' = <<>>
    /\ signalled' = 0
    /\ last' = NoLast
    /\ pc' = "idle"
    /\ UNCHANGED <<images, target, device_event, chains>>
    /\ UNCHANGED cursor_vars
    /\ UNCHANGED read_vars

Next ==
    \/ \E batch \in Batches : Kick(2, batch)
    \/ \E q \in {0, 1, 3}, batch \in OtherBatches : Kick(q, batch)
    \/ \E env \in Envs : HandleRequestQueue(env)
    \/ IgnoreChain
    \/ AddUsed
    \/ SignalUsed
    \/ GuestReap

Spec == Init /\ [][Next]_vars

(***************************************************************************)
(* The cursors on their own: calls on a write cursor and its clones, and   *)
(* on a read cursor, in any order                                          *)
(***************************************************************************)
MaxCursors == 2

MaxBuf == 2

MaxSkip == 2

MaxAdvance == 2

\* writable descriptors a guest can chain: lengths of a few bytes, a
\* zero-length descriptor, one outside guest memory
CursorLayouts ==
    { << D(2), D(1) >>, << D(1), D(0), D(1) >>, << D(1), BadD(1) >> }

\* readable bytes: every position holds a byte of its own
ReadableBytes(rdescs) == [i \in 1..TotalLen(rdescs) |-> i]

\* no daemon around the cursors
NoDaemon ==
    /\ images = <<>>
    /\ target = MakeTarget(0, FALSE, FALSE)
    /\ device_event = 0
    /\ chains = <<>>
    /\ used = <<>>
    /\ signalled = 0
    /\ pc = "idle"
    /\ last = NoLast

\* DescriptorChainWriter::new and DescriptorChainReader::new on a chain
\* that is either writable or readable
CursorInit ==
    /\ NoDaemon
    /\ NoThreads
    /\ \E wdescs \in CursorLayouts \cup {<<>>} :
       \E rdescs \in IF wdescs = <<>> THEN CursorLayouts ELSE {<<>>} :
           /\ wchain = Chain(wdescs, Fill(TotalLen(wdescs), 256), 0)
           /\ writers = << DescriptorChainWriter_new(wdescs) >>
           /\ advanced = << 0 >>
           /\ rchain = [rdescs |-> rdescs, rmem |-> ReadableBytes(rdescs)]
           /\ reader = DescriptorChainReader_new(rdescs)
           /\ cursor_call = NoCall

\* writer.clone(): the derived Clone copies the fields and the Rc
CloneWriter(i) ==
    /\ Len(writers) < MaxCursors
    /\ writers' = Append(writers, writers[i])
    /\ advanced' = Append(advanced, advanced[i])
    /\ cursor_call' = [kind |-> "clone", who |-> Len(writers) + 1]
    /\ UNCHANGED <<wchain, rchain, reader>>
    /\ UNCHANGED daemon_vars
    /\ UNCHANGED read_vars

\* write(buf) on cursor i, buf being n bytes of value 7
Write(i, n) ==
    /\ LET r == DescriptorChainWriter_write(wchain, writers[i], Fill(n, 7))
       IN  /\ wchain' = r.g
           /\ writers' = [writers EXCEPT ![i] = r.c]
           /\ advanced' = [advanced EXCEPT ![i] = @ + r.res.n]
           /\ cursor_call' = [kind |-> "write", who |-> i, res |-> r.res]
    /\ UNCHANGED <<rchain, reader>>
    /\ UNCHANGED daemon_vars
    /\ UNCHANGED read_vars

\* skip(bytes) on cursor i
Skip(i, bytes) ==
    /\ advanced[i] + bytes <= MaxAdvance
    /\ LET r == DescriptorChainWriter_skip(wchain, writers[i], bytes)
       IN  /\ wchain' = r.g
           /\ writers' = [writers EXCEPT ![i] = r.c]
    /\ advanced' = [advanced EXCEPT ![i] = @ + bytes]
    /\ cursor_call' = [kind |-> "skip", who |-> i]
    /\ UNCHANGED <<rchain, reader>>
    /\ UNCHANGED daemon_vars
    /\ UNCHANGED read_vars

\* residual() on cursor i
Residual(i) ==
    /\ LET r == DescriptorChainWriter_residual(wchain, writers[i])
       IN  /\ writers' = [writers EXCEPT ![i] = r.c]
           /\ cursor_call' = [kind |-> "residual", who |-> i,
                              res |-> Ok(r.ret)]
    /\ UNCHANGED <<wchain, advanced, rchain, reader>>
    /\ UNCHANGED daemon_vars
    /\ UNCHANGED read_vars

\* read(buf) on the read cursor, buf being n bytes long
Read(n) ==
    /\ LET r == DescriptorChainReader_read(rchain.rdescs, rchain.rmem,
                                           reader, n)
       IN  /\ reader' = r.r
           /\ cursor_call' = [kind |-> "read", who |-> 0, res |-> r.res,
                       bytes |-> r.bytes]
    /\ UNCHANGED <<wchain, writers, advanced, rchain>>
    /\ UNCHANGED daemon_vars
    /\ UNCHANGED read_vars

CursorNext ==
    \/ \E i \in 1..Len(writers) : CloneWriter(i)
    \/ \E i \in 1..Len(writers), n \in 0..MaxBuf : Write(i, n)
    \/ \E i \in 1..Len(writers), bytes \in 0..MaxSkip : Skip(i, bytes)
    \/ \E i \in 1..Len(writers) : Residual(i)
    \/ \E n \in 0..MaxBuf : Read(n)

CursorSpec == CursorInit /\ [][CursorNext]_vars

(***************************************************************************)
(* READ (10) on one logical unit from two threads: the steps of the Read10 *)
(* arm of execute_command, interleaved                                     *)
(***************************************************************************)
\* a read from the file position, which it advances, as Read::read_exact
\* does
read_exact_from_position(file, pos, offset, n, env) ==
    IF env.fault = "read" \/ (n > 0 /\ pos + n > Len(file))
    THEN [tag |-> "Err", bytes |-> <<>>, pos |-> pos]
    ELSE [tag |-> "Ok", bytes |-> SubSeq(file, pos + 1, pos + n),
          pos |-> pos + n]

\* FileExt::read_exact_at: n bytes at offset, the file position untouched.
\* [tag, bytes, pos]
read_exact_at(file, pos, offset, n, env) ==
    IF env.fault = "read" \/ (n > 0 /\ offset + n > Len(file))
    THEN [tag |-> "Err", bytes |-> <<>>, pos |-> pos]
    ELSE [tag |-> "Ok", bytes |-> SubSeq(file, offset + 1, offset + n),
          pos |-> pos]

\* the Read10 commands of the threads
ReadCommands ==
    { [type |-> "Read10", dpo |-> FALSE, fua |-> fua, lba |-> lba,
       group_number |-> 0, transfer_length |-> n] :
          fua \in BOOLEAN, lba \in 0..MaxBlocks, n \in 0..MaxBlocks }

Thread(cmd, env) ==
    [cmd |-> cmd, env |-> env, at |-> "start", size |-> 0, bytes |-> <<>>,
     out |-> <<>>, panic |-> FALSE, final |-> CmdOutput_ok]

\* the thread returned final (or panicked) without more data-in
Returned(th, panic, final) ==
    [th EXCEPT !.at = "done", !.panic = panic, !.final = final]

\* two READ (10) commands are handed to LUN 0, one per thread
ReadInit ==
    /\ \E blocks \in 0..MaxBlocks :
           images = << Image(1, blocks) >>
    /\ target = MakeTarget(1, FALSE, FALSE)
    /\ device_event = 0
    /\ chains = <<>>
    /\ used = <<>>
    /\ signalled = 0
    /\ pc = "idle"
    /\ last = NoLast
    /\ NoCursors
    /\ file_pos = 0
    /\ \E c1 \in ReadCommands, c2 \in {c \in ReadCommands : ~c.fua} :
       \E env \in {e \in Envs : e.build = "release" /\ e.fault # "sync"} :
           threads = << Thread(c1, env), Thread(c2, env) >>

\* if fua { self.file.sync_all() }; hope!(group_number == 0)
Read10_sync(t) ==
    /\ threads[t].at = "start"
    /\ images' = IF threads[t].cmd.fua
                 THEN sync_all(target.luns[1], images) ELSE images
    /\ threads' = [threads EXCEPT ![t] =
                       IF @.cmd.group_number # 0
                       THEN Returned(@, TRUE, CmdOutput_ok)
                       ELSE [@ EXCEPT !.at = "synced"]]
    /\ UNCHANGED <<target, device_event, chains, used, signalled, pc, last>>
    /\ UNCHANGED <<file_pos>>
    /\ UNCHANGED cursor_vars

\* self.size_in_blocks() and the range check
Read10_size(t) ==
    /\ threads[t].at = "synced"
    /\ LET th == threads[t]
           sz == size_in_blocks(target.luns[1], images, th.env)
       IN  threads' = [threads EXCEPT ![t] =
               CASE sz.tag = "Err" ->
                        Returned(th, FALSE,
                                 check_condition(UNRECOVERED_READ_ERROR))
                 [] sz.tag = "Panic" -> Returned(th, TRUE, CmdOutput_ok)
                 [] sz.tag = "Ok" ->
                        IF th.cmd.lba + th.cmd.transfer_length > sz.size
                        THEN Returned(th, FALSE,
                                      check_condition(
                                          LOGICAL_BLOCK_ADDRESS_OUT_OF_RANGE))
                        ELSE [th EXCEPT !.at = "sized", !.size = sz.size]]
    /\ UNCHANGED daemon_vars
    /\ UNCHANGED <<file_pos>>
    /\ UNCHANGED cursor_vars

\* self.read_blocks(lba, transfer_length)
Read10_read(t) ==
    /\ threads[t].at = "sized"
    /\ LET th == threads[t]
           dev == target.luns[1]
           rd == read_exact_at(images[dev.file], file_pos,
                               th.cmd.lba * dev.block_size,
                               th.cmd.transfer_length * dev.block_size,
                               th.env)
       IN  /\ file_pos' = rd.pos
           /\ threads' = [threads EXCEPT ![t] =
                  IF rd.tag = "Ok"
                  THEN [th EXCEPT !.at = "read", !.bytes = rd.bytes]
                  ELSE Returned(th, FALSE,
                                check_condition(UNRECOVERED_READ_ERROR))]
    /\ UNCHANGED daemon_vars
    /\ UNCHANGED cursor_vars

\* data_in.write_all(&bytes[..]); Ok(CmdOutput::ok())
Read10_write(t) ==
    /\ threads[t].at = "read"
    /\ threads' = [threads EXCEPT ![t] =
                       [Returned(@, FALSE, CmdOutput_ok)
                            EXCEPT !.out = threads[t].bytes,
                                   !.bytes = <<>>]]
    /\ UNCHANGED daemon_vars
    /\ UNCHANGED <<file_pos>>
    /\ UNCHANGED cursor_vars

ReadNext ==
    \/ \E t \in 1..Len(threads) : Read10_sync(t)
    \/ \E t \in 1..Len(threads) : Read10_size(t)
    \/ \E t \in 1..Len(threads) : Read10_read(t)
    \/ \E t \in 1..Len(threads) : Read10_write(t)

ReadSpec == ReadInit /\ [][ReadNext]_vars

(***************************************************************************)
(* Properties                                                              *)
(***************************************************************************)
\* a chain has been through handle_request_queue since the guest last looked
Ran == last.outcome # "none"

\* the logical unit (a device or the stub) got as far as parsing the CDB
Parsed == Ran /\ (last.cdb.ok \/ last.cdb.err # "NotParsed")

\* the CDB bytes of the request
RequestCdb == Slice(last.buf, 19, 19 + CDB_SIZE)

\* the cells of guest memory behind the header area that hold a byte
DataCells(g) == {i \in (HEADER_AREA + 1)..Len(g.mem) : g.mem[i] # 256}

\* the inner sink takes whatever it is given: every descriptor is mapped and
\* the chain has room behind the header area for n bytes
Accepting(g, n) ==
    /\ \A i \in 1..Len(g.descs) : ~g.descs[i].bad
    /\ TotalLen(g.descs) >= HEADER_AREA + n

\* C1: when the CDB parses with allocation_length = L, at most L bytes reach
\* data_in while the command runs, however much the command emits: the body
\* cursor stored at most L bytes and at most L cells of guest memory behind
\* the header area were written.
C1_AllocationLengthBoundsDataIn ==
    (Parsed /\ last.cdb.ok /\ last.cdb.allocation_length # <<>>)
        => /\ Len(last.body_writer.out) <= last.cdb.allocation_length[1]
           /\ Cardinality(DataCells(last.g)) <= last.cdb.allocation_length[1]

\* a command that emits more than its allocation length, cut at L > 0 bytes
C1_Witness ==
    /\ Parsed /\ last.cdb.ok /\ last.cdb.allocation_length # <<>>
    /\ last.cdb.allocation_length[1] > 0
    /\ Len(last.emit) > last.cdb.allocation_length[1]
    /\ Len(last.body_writer.out) = last.cdb.allocation_length[1]

\* one call of the truncating sink, as the claim has it: a call whose bytes
\* the inner sink took in full reports the whole buffer written
FullCount(call) ==
    (call.rem = 0 \/ (call.res.ok /\ call.res.n = call.given))
        => (call.res.ok /\ call.res.n = call.len)

\* C2 as stated: the truncating sink never reports a short write because of
\* the bound.
C2_NeverShort ==
    Parsed => \A k \in 1..Len(last.calls) : FullCount(last.calls[k])

\* one call of the truncating sink, as the code has it: min(len, remaining)
\* bytes are forwarded; at remaining = 0 nothing is forwarded and the whole
\* buffer is reported written; a positive remaining reports what the inner
\* sink reports, which falls short of the buffer, with the inner sink taking
\* all it was given, only for the write that crosses the bound, and is then
\* exactly remaining.
TruncatedCount(call) ==
    /\ call.given = Min(call.len, call.rem)
    /\ call.rem = 0 => call.res = Ok(call.len)
    /\ (call.rem > 0 /\ call.res.ok) => call.res.n <= call.given
    /\ (call.rem > 0 /\ call.res.ok /\ call.res.n = call.given
            /\ call.res.n < call.len)
           => (call.len > call.rem /\ call.res.n = call.rem)

\* C2 (amended): the sink never reports an error because of the bound, and
\* a short count only for the one write that crosses the bound; write_all
\* over an inner sink that accepts everything succeeds and the inner sink
\* holds exactly the first min(total, bound) bytes of what was emitted.
C2_SilentTruncation ==
    Parsed =>
        /\ \A k \in 1..Len(last.calls) : TruncatedCount(last.calls[k])
        /\ (last.cdb.ok /\ last.result.tag # "Panic"
                /\ Accepting(last.g, Min(Len(last.emit), SinkBound(last.cdb))))
               => /\ last.result.tag = "Ok"
                  /\ last.body_writer.out =
                         Take(last.emit,
                              Min(Len(last.emit), SinkBound(last.cdb)))

\* a write that crosses the bound, then a write at remaining = 0, over an
\* inner sink that accepts everything
C2_Witness ==
    /\ Parsed /\ last.cdb.ok /\ last.result.tag = "Ok"
    /\ Accepting(last.g, Min(Len(last.emit), SinkBound(last.cdb)))
    /\ \E k \in 1..Len(last.calls) :
           /\ last.calls[k].rem > 0
           /\ last.calls[k].len > last.calls[k].rem
           /\ last.calls[k].res = Ok(last.calls[k].rem)
    /\ \E k \in 1..Len(last.calls) :
           last.calls[k].rem = 0 /\ last.calls[k].len > 0
    /\ Len(last.body_writer.out) = SinkBound(last.cdb)

\* C3: no step of the daemon changes the contents or the length of a
\* backing image, READ (10) with FUA and the failing commands included.
C3_ImagesNeverWritten == [][images' = images]_vars

\* READ (10) with FUA has read a block of a non-empty image
C3_Witness ==
    /\ Parsed /\ last.cdb.ok /\ last.cdb.command.type = "Read10"
    /\ last.cdb.command.fua
    /\ last.result.tag = "Ok" /\ last.result.output.status = 0
    /\ Len(last.body_writer.out) = BLOCK_SIZE
    /\ \E i \in 1..Len(images) : Len(images[i]) > 0


\* the bytes the header cursor stored
HeaderBytes == last.writer.out

\* C4 as stated: every chain of the request queue gets its response header
\* exactly once, before it is added to the used ring.
C4_HeaderExactlyOnce ==
    /\ pc = "handled" => last.header_writes = 1
    /\ \A k \in 1..Len(used) : used[k].header_writes = 1

\* C4 (amended): a chain gets its response header at most once and never
\* after it is added to the used ring; it gets it exactly once, at the start
\* of the chain, when handle_request_queue ends with a response, and not at
\* all when the write to data_in failed with an error other than WriteZero:
\* that chain is added to the used ring without a header.
C4_HeaderAtMostOnce ==
    /\ Ran =>
          /\ last.header_writes \in {0, 1}
          /\ last.header_writes = 1 <=> last.outcome = "responded"
          /\ last.outcome = "dropped" <=>
                 (last.result.tag = "DataIn" /\ last.result.kind # "WriteZero")
          /\ last.outcome = "responded" =>
                 /\ HeaderBytes = Concat(Response_bytes(last.response[1]))
                 /\ Take(last.g.mem, Len(HeaderBytes)) = HeaderBytes
          /\ last.outcome = "dropped" => HeaderBytes = <<>>
    /\ pc = "handled" => last.outcome \in {"responded", "dropped"}
    /\ \A k \in 1..Len(used) :
          /\ used[k].outcome \in {"responded", "dropped"}
          /\ used[k].header_writes =
                 IF used[k].outcome = "responded" THEN 1 ELSE 0
    /\ (Ran /\ pc \in {"loop", "signalled"} /\ used # <<>>)
           => used[Len(used)].header_writes = last.header_writes

\* one event whose first chain was added without a header and whose second
\* chain was added with one
C4_Witness ==
    /\ Len(used) = 2
    /\ used[1].header_writes = 0 /\ used[1].outcome = "dropped"
    /\ used[2].header_writes = 1 /\ used[2].outcome = "responded"

\* C5: in every response the framer writes, sense_len is the number of sense
\* bytes that follow the header, which is the length of the output's sense
\* and at most SENSE_SIZE - 1; CHECK CONDITION carries 18 bytes of sense that
\* start with 0x70.
C5_SenseLen ==
    /\ (Ran /\ last.result.tag = "Ok")
           => Len(last.result.output.sense) < SENSE_SIZE
    /\ (Ran /\ last.outcome = "responded") =>
          LET sense_len == from_le_bytes(Slice(HeaderBytes, 0, 4))
          IN  /\ sense_len = Len(HeaderBytes) - 12
              /\ sense_len <= SENSE_SIZE - 1
              /\ last.result.tag = "Ok"
                     => sense_len = Len(last.result.output.sense)
              /\ last.result.tag # "Ok" => sense_len = 0
              /\ At(HeaderBytes, 10) = 2
                     => (sense_len = 18 /\ At(HeaderBytes, 12) = 112)

\* a CHECK CONDITION response with its 18 bytes of sense
C5_Witness ==
    /\ Ran /\ last.outcome = "responded"
    /\ At(HeaderBytes, 10) = 2
    /\ from_le_bytes(Slice(HeaderBytes, 0, 4)) = 18
    /\ Len(HeaderBytes) = 30

\* the command returned CHECK CONDITION with this sense key, additional
\* sense code and qualifier
CheckCondition(sk, asc, ascq) ==
    /\ last.result.tag = "Ok"
    /\ last.result.output.status = 2
    /\ Len(last.result.output.sense) = 18
    /\ At(last.result.output.sense, 2) = sk
    /\ At(last.result.output.sense, 12) = asc
    /\ At(last.result.output.sense, 13) = ascq

OpcodeInTable(op) == \E i \in 1..Len(OpcodeTable) : OpcodeTable[i].opcode = op

PairInTable(op, sa) ==
    \E i \in 1..Len(OpcodeTable) :
        /\ OpcodeTable[i].opcode = op
        /\ OpcodeTable[i].sa \in {<<>>, <<sa>>}

\* C6: on a present LUN, a CDB whose opcode is in no row of the opcode table
\* returns CHECK CONDITION 5/20/00, and a CDB whose opcode is in the table
\* while its (opcode, service action) pair is not returns CHECK CONDITION
\* 5/24/00.
C6_UnknownOpcodeAndServiceAction ==
    (Parsed /\ last.lu # <<>>) =>
        LET op == At(RequestCdb, 0)
            sa == At(RequestCdb, 1) % 32
        IN  /\ ~OpcodeInTable(op) => CheckCondition(5, 32, 0)
            /\ (OpcodeInTable(op) /\ ~PairInTable(op, sa))
                   => CheckCondition(5, 36, 0)

\* MAINTENANCE IN with a service action the table does not have
C6_Witness ==
    /\ Parsed /\ last.lu # <<>>
    /\ OpcodeInTable(At(RequestCdb, 0))
    /\ ~PairInTable(At(RequestCdb, 0), At(RequestCdb, 1) % 32)
    /\ CheckCondition(5, 36, 0)
    /\ last.outcome = "responded"

\* C7: when execute_command on a present LUN returns CHECK CONDITION, no
\* byte has been written to data_in.
C7_CheckConditionWritesNothing ==
    (Parsed /\ last.lu # <<>> /\ last.result.tag = "Ok"
        /\ last.result.output.status = 2)
        => /\ last.body_writer.out = <<>>
           /\ DataCells(last.g) = {}

\* the CDB usage template of a table row with every variable bit zero: the
\* opcode, the service action where the row has one, zeros
ZeroedCdb(e) ==
    <<e.opcode, IF e.sa # <<>> THEN e.sa[1] ELSE 0>>
        \o Zeros(Len(CommandType_cdb_template(e.ty)) - 2)

\* C8 as stated: Cdb::parse succeeds on the zeroed template of every
\* supported command type.
C8_ZeroedTemplatesParse ==
    Parsed =>
        \A i \in 1..Len(OpcodeTable) :
            RequestCdb = Pad(ZeroedCdb(OpcodeTable[i])) => last.cdb.ok

\* C8 (amended): Cdb::parse succeeds on the zeroed template of every
\* supported command type but MODE SENSE (6), and gives that type's
\* command; the zeroed MODE SENSE (6) template (page code 0, subpage 0) is
\* rejected with InvalidField.
C8_ZeroedTemplatesParseButModeSense ==
    Parsed =>
        \A i \in 1..Len(OpcodeTable) :
            RequestCdb = Pad(ZeroedCdb(OpcodeTable[i])) =>
                IF OpcodeTable[i].ty = "ModeSense6"
                THEN ~last.cdb.ok /\ last.cdb.err = "InvalidField"
                ELSE last.cdb.ok
                         /\ last.cdb.command.type = OpcodeTable[i].ty

\* the zeroed INQUIRY template has been parsed
C8_Witness ==
    /\ Parsed
    /\ RequestCdb = Pad(ZeroedCdb(OpcodeTable[2]))
    /\ last.cdb.ok /\ last.cdb.command.type = "Inquiry"

\* C9: the naca flag of a parsed CDB is bit 2 of the control byte, the last
\* byte of the CDB of that command type, and of no other byte.
C9_NacaFromControlByte ==
    (Parsed /\ last.cdb.ok) =>
        last.cdb.naca =
            Bit(At(RequestCdb,
                   Len(CommandType_cdb_template(last.cdb.command.type)) - 1),
                2)

\* the LUN number of the request, from its bytes
LunNumber == (At(last.buf, 2) % 64) * 256 + At(last.buf, 3)

\* the request went to a logical unit of target 0
Dispatched ==
    /\ Ran /\ last.lun.tag = "TargetLun" /\ last.lun.target = 0
    /\ last.result.tag # "None"

\* every byte READ (10) stored is the byte of file at that place
ReadFrom(file) ==
    (last.cdb.ok /\ last.cdb.command.type = "Read10")
        => \A k \in 1..Len(last.body_writer.out) :
               /\ last.cdb.command.lba * BLOCK_SIZE + k <= Len(file)
               /\ last.body_writer.out[k] =
                      file[last.cdb.command.lba * BLOCK_SIZE + k]

\* C10: a request for LUN i is executed by the i-th logical unit of the
\* target when i is less than the number of LUNs (READ (10) returns bytes of
\* that unit's image) and by the missing-LUN stub otherwise, which returns
\* no byte of any image.
C10_LunDispatch ==
    Dispatched =>
        IF LunNumber < Len(target.luns)
        THEN /\ last.lu = <<target.luns[LunNumber + 1]>>
             /\ ReadFrom(images[target.luns[LunNumber + 1].file])
        ELSE /\ last.lu = <<>>
             /\ ReadFrom(<<>>)

\* READ (10) for a LUN number past the last LUN, while LUN 0 has data
C10_Witness ==
    /\ Dispatched
    /\ LunNumber >= Len(target.luns)
    /\ last.cdb.ok /\ last.cdb.command.type = "Read10"
    /\ Len(images[1]) > 0
    /\ last.lu = <<>>
    /\ last.outcome = "responded"

\* the request names a LUN of target 0 that the target does not have
MissingLunRequest ==
    /\ Ran /\ last.lun.tag = "TargetLun" /\ last.lun.target = 0
    /\ LunNumber >= Len(target.luns)

\* the status and the response code of the response header written
ResponseStatus == At(HeaderBytes, 10)

ResponseCode == At(HeaderBytes, 11)

NoTarget ==
    /\ Ran
    /\ \/ last.lun.tag = "ReportLuns"
       \/ last.lun.tag = "TargetLun" /\ last.lun.target >= 1

\* the writable bytes of the chain behind the header area
BehindHeaderArea == Max(TotalLen(last.g.descs) - HEADER_AREA, 0)

\* C12: when parse_target yields None no logical unit is executed, nothing
\* is written to data_in, and the response is BadTarget with status 0,
\* status qualifier 0, no sense and the writable bytes behind the 108-byte
\* header area as residual; the header written carries exactly that.
C12_BadTargetResponse ==
    NoTarget =>
        /\ last.result.tag = "None" /\ last.lu = <<>>
        /\ last.calls = <<>> /\ last.body_writer.out = <<>>
        /\ DataCells(last.g) = {}
        /\ last.response
               = << Response(VirtioScsiResponse_BadTarget, 0, 0, <<>>,
                             BehindHeaderArea) >>
        /\ last.outcome = "responded" =>
               /\ Len(HeaderBytes) = 12
               /\ from_le_bytes(Slice(HeaderBytes, 0, 4)) = 0
               /\ from_le_bytes(Slice(HeaderBytes, 4, 8)) = BehindHeaderArea
               /\ from_le_bytes(Slice(HeaderBytes, 8, 10)) = 0
               /\ ResponseStatus = 0
               /\ ResponseCode = VirtioScsiResponse_BadTarget

\* a request for a target that is not configured, on a chain whose one
\* descriptor holds the header area and more
C12_Witness ==
    /\ NoTarget /\ last.lun.tag = "TargetLun"
    /\ last.outcome = "responded"
    /\ Len(last.g.descs) = 1
    /\ BehindHeaderArea > 0
    /\ from_le_bytes(Slice(HeaderBytes, 4, 8)) = BehindHeaderArea
    /\ ResponseCode = VirtioScsiResponse_BadTarget

\* a write of the logical unit ran off the end of the writable descriptors:
\* the sink forwarded bytes and the cursor's write returned 0
RanOffChain ==
    \E k \in 1..Len(last.calls) :
        /\ last.calls[k].rem > 0 /\ last.calls[k].given > 0
        /\ last.calls[k].res = Ok(0)

\* C13: when a data-in write of the logical unit runs off the end of the
\* chain's writable descriptors, the response handle_request_queue makes is
\* Overrun with status 0, status qualifier 0 and no sense.
C13_OverrunOnWriteZero ==
    (Ran /\ RanOffChain) =>
        /\ last.response # <<>>
        /\ last.response[1].response = VirtioScsiResponse_Overrun
        /\ last.response[1].status = 0
        /\ last.response[1].status_qualifier = 0
        /\ last.response[1].sense = <<>>

\* the logical unit failed with a data-in error other than WriteZero
DataInFailed ==
    Ran /\ last.result.tag = "DataIn" /\ last.result.kind # "WriteZero"

\* C14: when the logical unit fails with a data-in error whose kind is not
\* WriteZero, no response header is written for the request and its chain
\* is not completed back to the guest: it never enters the used ring.
C14_AbandonedNotCompleted ==
    /\ DataInFailed =>
           /\ last.header_writes = 0
           /\ HeaderBytes = <<>>
           /\ pc # "aborted"
    /\ \A k \in 1..Len(used) : used[k].outcome # "dropped"

\* READ (10) ran on a present LUN to the end of its arm, with the backing
\* file answering (a failing fsync is ignored by the code)
Read10Ran ==
    /\ Parsed /\ last.lu # <<>>
    /\ last.cdb.ok /\ last.cdb.command.type = "Read10"
    /\ last.result.tag # "Panic"
    /\ last.fault \in {"none", "sync"}

\* the image of the logical unit that ran, and its size in blocks
LuImage == images[last.lu[1].file]

LuBlocks == Len(LuImage) \div BLOCK_SIZE

\* C15: READ (10) with lba + transfer_length > size_in_blocks returns CHECK
\* CONDITION 5/21/00 and transfers nothing; otherwise, lba + transfer_length
\* = size_in_blocks and transfer_length = 0 included, it returns GOOD and
\* data-in is the transfer_length * block_size bytes of the image from byte
\* lba * block_size on, when the chain has room for them.
C15_Read10Range ==
    Read10Ran =>
        LET lba == last.cdb.command.lba
            n == last.cdb.command.transfer_length
        IN  IF lba + n > LuBlocks
            THEN /\ CheckCondition(5, 33, 0)
                 /\ last.body_writer.out = <<>>
                 /\ DataCells(last.g) = {}
            ELSE Accepting(last.g, n * BLOCK_SIZE) =>
                     /\ last.result.tag = "Ok"
                     /\ last.result.output.status = 0
                     /\ last.result.output.sense = <<>>
                     /\ last.body_writer.out
                            = SubSeq(LuImage, lba * BLOCK_SIZE + 1,
                                     (lba + n) * BLOCK_SIZE)
                     /\ SubSeq(last.g.mem, HEADER_AREA + 1,
                               HEADER_AREA + n * BLOCK_SIZE)
                            = last.body_writer.out
                     /\ Cardinality(DataCells(last.g)) = n * BLOCK_SIZE

\* READ (10) of the last block of a two-block image
C15_Witness ==
    /\ Read10Ran
    /\ last.cdb.command.lba = 1 /\ last.cdb.command.transfer_length = 1
    /\ LuBlocks = 2
    /\ last.result.tag = "Ok" /\ last.result.output.status = 0
    /\ Len(last.body_writer.out) = BLOCK_SIZE
    /\ last.body_writer.out[1] = LuImage[BLOCK_SIZE + 1]
    /\ last.outcome = "responded"

\* REPORT LUNS with select report NoWellKnown has been parsed for a present
\* LUN
ReportLunsRequest ==
    /\ Parsed /\ last.lu # <<>>
    /\ last.cdb.ok /\ last.cdb.command.type = "ReportLuns"
    /\ last.cdb.command.select_report = "NoWellKnown"

\* the parameter data of REPORT LUNS for n logical units: the length 8 n as
\* a big-endian u32, four zero bytes, then <<0, i, 0, 0, 0, 0, 0, 0>> for
\* i = 0 .. n - 1
RECURSIVE LunList(_)
LunList(n) ==
    IF n = 0 THEN <<>>
    ELSE LunList(n - 1) \o <<0, n - 1, 0, 0, 0, 0, 0, 0>>

ReportLunsData(n) ==
    <<(8 * n) \div 16777216, ((8 * n) \div 65536) % 256,
      ((8 * n) \div 256) % 256, (8 * n) % 256, 0, 0, 0, 0>> \o LunList(n)

\* C16: REPORT LUNS with select report NoWellKnown on a present LUN of a
\* target with N logical units returns GOOD and emits, before the
\* allocation length cuts it, the u32 8 N, four zero bytes and the N LUN
\* entries in increasing order; the length field is the number of LUN bytes
\* behind the 8-byte header.  What reaches data-in is that, cut at the
\* allocation length.
C16_ReportLunsData ==
    (ReportLunsRequest
        /\ Accepting(last.g, Min(8 + 8 * Len(target.luns),
                                 SinkBound(last.cdb))))
        => /\ last.result.tag = "Ok"
           /\ last.result.output.status = 0
           /\ last.emit = ReportLunsData(Len(target.luns))
           /\ from_be_bytes(Slice(last.emit, 0, 4)) = Len(last.emit) - 8
           /\ last.body_writer.out
                  = Take(last.emit, Min(Len(last.emit), SinkBound(last.cdb)))

\* READ CAPACITY (10) or (16) was accepted for a present LUN (no NACA), the
\* size of the backing file could be read and the chain has room for the
\* answer
ReadCapacityRequest(type, n) ==
    /\ Parsed /\ last.lu # <<>>
    /\ last.cdb.ok /\ last.cdb.command.type = type /\ ~last.cdb.naca
    /\ last.fault # "metadata"
    /\ Accepting(last.g, Min(n, SinkBound(last.cdb)))

\* C17: READ CAPACITY reports the last valid LBA: READ CAPACITY (16) emits
\* size_in_blocks - 1 as a big-endian u64 and READ CAPACITY (10) emits
\* min(size_in_blocks - 1, 2^32 - 1) as a big-endian u32, each followed by
\* block_size as a big-endian u32, size_in_blocks being the file length
\* over block_size.
C17_ReadCapacityLastLba ==
    /\ ReadCapacityRequest("ReadCapacity16", 32) =>
           /\ last.result.tag = "Ok" /\ last.result.output.status = 0
           /\ LuBlocks >= 1
           /\ from_be_bytes(Slice(last.emit, 0, 8)) = LuBlocks - 1
           /\ from_be_bytes(Slice(last.emit, 8, 12)) = BLOCK_SIZE
    /\ ReadCapacityRequest("ReadCapacity10", 8) =>
           /\ last.result.tag = "Ok" /\ last.result.output.status = 0
           /\ LuBlocks >= 1
           /\ from_be_bytes(Slice(last.emit, 0, 4)) = LuBlocks - 1
           /\ from_be_bytes(Slice(last.emit, 4, 8)) = BLOCK_SIZE

\* the 8-byte LUN field of the request read, and what VirtioScsiLun::parse
\* makes of it
LunField == Slice(last.buf, 0, 8)

ParsedLun == VirtioScsiLun_parse(LunField)

\* C18: the LUN field parses to the REPORT LUNS well-known LUN exactly when
\* it is C1 01 00 00 00 00 00 00, and to TargetLun exactly when its first
\* byte is 0x01 and the top two bits of byte 2 are 01, with target = byte 1
\* and lun = the lower fourteen bits of bytes 2..3; any other value yields
\* no TargetLun.
C18_LunFieldParse ==
    (Ran /\ Len(last.buf) >= 8) =>
        /\ ParsedLun.tag = "ReportLuns"
               <=> LunField = <<193, 1, 0, 0, 0, 0, 0, 0>>
        /\ ParsedLun.tag = "TargetLun"
               <=> (At(LunField, 0) = 1 /\ At(LunField, 2) \div 64 = 1)
        /\ ParsedLun.tag = "TargetLun" =>
               /\ ParsedLun.target = At(LunField, 1)
               /\ ParsedLun.lun
                      = (At(LunField, 2) % 64) * 256 + At(LunField, 3)

\* the largest of the bytes the write cursors have advanced
RECURSIVE MaxOf(_)
MaxOf(s) == IF s = <<>> THEN 0 ELSE Max(Head(s), MaxOf(Tail(s)))

\* the high-water cell holds the furthest any cursor has advanced
HighWaterIsFurthest ==
    writers # <<>> =>
        DescriptorChainWriter_max_written(wchain) = MaxOf(advanced)

\* the high-water cell never decreases
HighWaterGrows ==
    DescriptorChainWriter_max_written(wchain')
        >= DescriptorChainWriter_max_written(wchain)

\* C19: all clones of a write cursor share one high-water cell: after any
\* sequence of write and skip calls on the original and its clones,
\* max_written() equals the maximum, over all of them, of the bytes that
\* cursor has advanced from the start of the chain (written plus skipped),
\* and the value never decreases.
C19_SharedHighWater == [] HighWaterIsFurthest /\ [][HighWaterGrows]_vars

\* a cursor that lags behind another has just written, and the high-water
\* cell holds what the other one advanced
C19_Witness ==
    /\ cursor_call.kind = "write"
    /\ cursor_call.res.ok
    /\ cursor_call.res.n > 0
    /\ \E i \in 1..Len(writers) :
           /\ i # cursor_call.who
           /\ advanced[i] > advanced[cursor_call.who]
           /\ writers[i].written = advanced[i]
           /\ DescriptorChainWriter_max_written(wchain) = advanced[i]

\* the bytes left in the current descriptor of a cursor c over descs
LeftIn(descs, c) ==
    IF c.current = 0 THEN 0 ELSE descs[c.current].len - c.offset

\* where a cursor c over descs stands, in bytes from the start of the chain
PositionOf(descs, c) ==
    IF c.current = 0 THEN TotalLen(descs)
    ELSE DescBase(descs, c.current) + c.offset

\* where a call that moved n bytes from c leaves the cursor
MovedOn(descs, c, n) ==
    IF c.current # 0 /\ c.offset + n = descs[c.current].len
    THEN [current |-> iter_next(descs, c.current), offset |-> 0]
    ELSE [current |-> c.current, offset |-> c.offset + n]

\* a write call stays within the current descriptor
WriteStaysInDescriptor ==
    cursor_call'.kind = "write" =>
        LET c == writers[cursor_call'.who]
            after == writers'[cursor_call'.who]
            n == cursor_call'.res.n
            from == PositionOf(wchain.descs, c)
        IN  /\ n <= LeftIn(wchain.descs, c)
            /\ \A k \in 1..Len(wchain.mem) :
                   wchain'.mem[k] # wchain.mem[k]
                       => (from < k /\ k <= from + LeftIn(wchain.descs, c))
            /\ cursor_call'.res.ok =>
                   [current |-> after.current, offset |-> after.offset]
                       = MovedOn(wchain.descs, c, n)

\* a read call stays within the current descriptor
ReadStaysInDescriptor ==
    cursor_call'.kind = "read" =>
        LET n == cursor_call'.res.n
            from == PositionOf(rchain.rdescs, reader)
        IN  /\ n <= LeftIn(rchain.rdescs, reader)
            /\ cursor_call'.bytes = SubSeq(rchain.rmem, from + 1, from + n)
            /\ cursor_call'.res.ok =>
                   reader' = MovedOn(rchain.rdescs, reader, n)

\* the cursor of the latest call stands inside its current descriptor
OffsetInsideDescriptor ==
    /\ cursor_call.kind \in {"write", "skip", "residual", "clone"} =>
           LET c == writers[cursor_call.who]
           IN  c.current # 0 => c.offset < wchain.descs[c.current].len
    /\ cursor_call.kind = "read" =>
           (reader.current # 0
                => reader.offset < rchain.rdescs[reader.current].len)

\* C20: a single read or write call on a descriptor-chain cursor moves at
\* most the bytes remaining in the current descriptor and never touches a
\* later descriptor; when the offset reaches the descriptor length the
\* cursor advances to the next descriptor and the offset resets to zero, so
\* after every operation, whenever a current descriptor exists, offset is
\* less than that descriptor's length.
C20_OneDescriptorPerCall ==
    /\ [][WriteStaysInDescriptor /\ ReadStaysInDescriptor]_vars
    /\ [] OffsetInsideDescriptor

\* the writable bytes a cursor c over descs has not consumed: the rest of
\* the current descriptor and the whole of every later one
Unconsumed(descs, c) ==
    IF c.current = 0 THEN 0
    ELSE LeftIn(descs, c)
             + (TotalLen(descs) - DescBase(descs, c.current + 1))

\* a residual call returns the unconsumed bytes, leaves the cursor at the
\* end of the chain and the high-water cell as it was
ResidualWalksToEnd ==
    cursor_call'.kind = "residual" =>
        LET i == cursor_call'.who
        IN  /\ cursor_call'.res = Ok(Unconsumed(wchain.descs, writers[i]))
            /\ writers'[i].current = 0
            /\ DescriptorChainWriter_max_written(wchain')
                   = DescriptorChainWriter_max_written(wchain)

\* a cursor at the end of the chain stays there
EndOfChainStays ==
    \A i \in 1..Len(writers) :
        writers[i].current = 0 => writers'[i].current = 0

\* at the end of the chain residual returns 0 and write returns 0
EndOfChainIsEmpty ==
    \A i \in 1..Len(writers) :
        writers[i].current = 0 =>
            /\ DescriptorChainWriter_residual(wchain, writers[i]).ret = 0
            /\ \A n \in 0..MaxBuf :
                   DescriptorChainWriter_write(wchain, writers[i],
                                               Fill(n, 7)).res = Ok(0)

\* C21: residual() on a write cursor returns the number of writable bytes
\* that cursor has not yet consumed (the rest of the current descriptor
\* plus the full length of every later writable descriptor), leaves the
\* cursor at the end of the chain so that a second residual() returns 0 and
\* a later write returns 0, and does not change the high-water mark.
C21_Residual ==
    /\ [][ResidualWalksToEnd /\ EndOfChainStays]_vars
    /\ [] EndOfChainIsEmpty

\* residual has just returned what is left of a chain that a cursor had
\* partly consumed
C21_Witness ==
    /\ cursor_call.kind = "residual"
    /\ advanced[cursor_call.who] > 0
    /\ cursor_call.res.n > 0
    /\ cursor_call.res.n
           = TotalLen(wchain.descs) - advanced[cursor_call.who]
    /\ DescriptorChainWriter_max_written(wchain) > 0

\* handle_request_queue has just returned or panicked on Head(chains)
JustHandled ==
    /\ pc \in {"handled", "aborted"}
    /\ device_event = 2
    /\ chains # <<>>
    /\ Ran

\* the request went to a logical unit the target has, with one of the four
\* task attributes
ToPresentLun ==
    /\ JustHandled
    /\ Len(last.buf) >= 19
    /\ At(last.buf, 16) <= 3
    /\ last.lun.tag = "TargetLun"
    /\ last.lun.target = 0
    /\ LunNumber < Len(target.luns)

\* request bytes with task attribute, priority and CRN set to zero
PlainHeader(bytes) ==
    [i \in 1..Len(bytes) |-> IF i \in {17, 18, 19} THEN 0 ELSE bytes[i]]

\* what the same request does under a plain header, on the same chain,
\* images and backing-file behaviour
UnderPlainHeader ==
    handle_request_queue(
        <<target>>, images,
        [Head(chains) EXCEPT !.rmem = PlainHeader(@)],
        [fault |-> last.fault, build |-> last.build,
         page_err |-> last.page_err])

\* the two runs end alike
SameAnswer(a, b) ==
    /\ a.outcome = b.outcome
    /\ a.result = b.result
    /\ a.response = b.response
    /\ a.body_writer.out = b.body_writer.out
    /\ a.g.mem = b.g.mem

RsocRequest(opt) ==
    /\ Parsed /\ last.lu # <<>>
    /\ last.cdb.ok /\ ~last.cdb.naca
    /\ last.cdb.command.type = "ReportSupportedOperationCodes"
    /\ At(RequestCdb, 2) % 8 = opt
    /\ Accepting(last.g, 32)

\* the opcode and service action the CDB asks about
AskedOpcode == At(RequestCdb, 3)

AskedServiceAction == At(RequestCdb, 4) * 256 + At(RequestCdb, 5)

\* the opcode has service actions in the table
HasServiceActions(op) ==
    \E i \in 1..Len(OpcodeTable) :
        OpcodeTable[i].opcode = op /\ OpcodeTable[i].sa # <<>>

\* the command is in the table: the opcode alone with service action 0, or
\* the pair
SupportedPair(op, sa) ==
    \E i \in 1..Len(OpcodeTable) :
        /\ OpcodeTable[i].opcode = op
        /\ \/ OpcodeTable[i].sa = <<>> /\ sa = 0
           \/ OpcodeTable[i].sa = <<sa>>

\* CHECK CONDITION INVALID_FIELD_IN_CDB and no data-in
InvalidFieldAnswer ==
    /\ CheckCondition(5, 36, 0)
    /\ last.emit = <<>>

\* GOOD with the one_command descriptor that says 'not supported'
NotSupportedAnswer ==
    /\ last.result.tag = "Ok"
    /\ last.result.output.status = 0
    /\ last.emit = <<0, 1, 0, 0>>

\* C23: REPORT SUPPORTED OPERATION CODES decision table: in OneServiceAction
\* mode an opcode that has no service actions (supported without SA, or
\* unknown) yields CHECK CONDITION INVALID_FIELD_IN_CDB; in OneCommand mode
\* an opcode that requires a service action yields CHECK CONDITION
\* INVALID_FIELD_IN_CDB and an unknown opcode yields GOOD with a 'not
\* supported' descriptor; in OneCommandOrServiceAction mode the command
\* never returns CHECK CONDITION and reports every unsupported (opcode, SA)
\* with a 'not supported' descriptor.
C23_RsocDecisionTable ==
    /\ (RsocRequest(2) /\ ~HasServiceActions(AskedOpcode))
           => InvalidFieldAnswer
    /\ (RsocRequest(1) /\ HasServiceActions(AskedOpcode))
           => InvalidFieldAnswer
    /\ (RsocRequest(1) /\ ~OpcodeInTable(AskedOpcode))
           => NotSupportedAnswer
    /\ RsocRequest(3) =>
           /\ last.result.tag = "Ok"
           /\ last.result.output.status = 0
           /\ ~SupportedPair(AskedOpcode, AskedServiceAction)
                  => NotSupportedAnswer

\* OneServiceAction was asked about an opcode the table does not have and
\* answered INVALID_FIELD_IN_CDB
C23_Witness ==
    /\ RsocRequest(2)
    /\ ~OpcodeInTable(AskedOpcode)
    /\ InvalidFieldAnswer
    /\ last.outcome = "responded"

\* the head indices of the completions in the used ring, and of the chains
\* of the event not yet looked at
UsedIds == [k \in 1..Len(used) |-> used[k].id]

WaitingIds == [k \in 1..Len(chains) |-> chains[k].head]

\* while a request-queue event is handled, the completions followed by the
\* chains still waiting are the chains in the order they arrived
ArrivalOrderKept ==
    (device_event = 2 /\ pc # "idle" /\ pc' # "idle")
        => UsedIds' \o WaitingIds' = UsedIds \o WaitingIds

\* a chain is started only when no other is under way, and it is the first
\* of those waiting
StartsFirstWaiting ==
    (device_event = 2 /\ pc' = "handled")
        => /\ pc = "loop"
           /\ chains' = chains
           /\ used' = used
           /\ last'.buf = Take(Head(chains).rmem, 19 + CDB_SIZE)

\* once a chain is handled, the next step adds it to the used ring
AddedBeforeNextStarts ==
    pc = "handled"
        => /\ pc' = "loop"
           /\ Len(used') = Len(used) + 1
           /\ used'[Len(used')].id = Head(chains).head
           /\ used'[Len(used')].len
                  = DescriptorChainWriter_max_written(last.g)
           /\ used'[Len(used')].header_writes = last.header_writes
           /\ Take(used', Len(used)) = used
           /\ last' = last

RunAlone(t) ==
    LET s == Read10_script(threads[t].cmd, target.luns[1], images,
                           threads[t].env)
    IN  [panic |-> s.panic, final |-> s.final, out |-> Concat(s.chunks)]

\* what the READ (10) of thread t returned
RunTogether(t) ==
    [panic |-> threads[t].panic, final |-> threads[t].final,
     out |-> threads[t].out]

\* C25: two READ (10) commands executing concurrently against the same
\* logical unit each return, in every interleaving of their steps, exactly
\* the status and bytes they would return if run alone: a read is positioned
\* by its own offset and neither reads nor advances a shared file position.
C25_ConcurrentReads ==
    /\ \A t \in 1..Len(threads) :
           threads[t].at = "done" => RunTogether(t) = RunAlone(t)
    /\ file_pos = 0

\* both threads have read different blocks of the image, the second one to
\* start finishing first
C25_Witness ==
    /\ Len(threads) = 2
    /\ threads[1].at = "read"
    /\ threads[2].at = "done"
    /\ threads[2].out # <<>>
    /\ threads[1].bytes # <<>>
    /\ threads[1].bytes # threads[2].out


(***************************************************************************)
(* C26: the used length handed to add_used for a request, the high-water   *)
(* mark the write cursors share, is at most the byte length of the chain's *)
(* writable descriptors, whatever the layout of the chain, chains with     *)
(* fewer than 108 writable bytes included.                                 *)
(***************************************************************************)
WritableLen == TotalLen(last.g.descs)

C26_UsedLenWithinChain ==
    pc = "handled" =>
        DescriptorChainWriter_max_written(last.g) <= WritableLen


\* the request was answered with response code Ok on a chain that has room
\* for the whole header area
OkOnFullChain ==
    /\ Ran
    /\ last.outcome = "responded"
    /\ last.response[1].response = VirtioScsiResponse_Ok
    /\ WritableLen >= HEADER_AREA

\* what the logical unit stored through data_in
DataInBytes == last.body_writer.out

\* C27: when a request completes with response code Ok on a chain of at
\* least 108 writable bytes, 108 plus the bytes the logical unit stored in
\* data-in plus the residual of the response header is the byte length of
\* the writable descriptors; the header and the sense lie below offset 108
\* and the data-in bytes from offset 108 on, so neither overwrites the
\* other.
C27_HeaderDataResidual ==
    OkOnFullChain =>
        /\ HEADER_AREA + Len(DataInBytes) + last.response[1].residual
               = WritableLen
        /\ from_le_bytes(Slice(HeaderBytes, 4, 8)) = last.response[1].residual
        /\ Len(HeaderBytes) <= HEADER_AREA
        /\ \A i \in 1..Len(HeaderBytes) : last.g.mem[i] = HeaderBytes[i]
        /\ \A i \in 1..Len(DataInBytes) :
               last.g.mem[HEADER_AREA + i] = DataInBytes[i]
        /\ DataCells(last.g)
               = (HEADER_AREA + 1)..(HEADER_AREA + Len(DataInBytes))

\* an Ok response with sense in the header area, data-in bytes behind it
\* and writable bytes left over
C27_Witness ==
    /\ OkOnFullChain
    /\ Len(DataInBytes) > 0
    /\ last.response[1].residual > 0
    /\ Len(HeaderBytes) > 12


\* the last-LBA field of what READ CAPACITY emitted is the all-ones value
\* a wrapped 0 - 1 gives (images of 2^32 blocks and more are beyond
\* MaxBlocks, so nothing else gives it)
WrappedLastLba(width) == Slice(last.emit, 0, width) = Fill(width, 255)

\* C28: for every backing image of a whole number of blocks, the empty
\* image of 0 blocks included, READ CAPACITY (10) and READ CAPACITY (16)
\* return a CmdOutput, and size_in_blocks - 1 does not underflow the
\* unsigned 64-bit range: the command neither aborts on the subtraction
\* nor reports the wrapped value.
C28_ReadCapacityNoUnderflow ==
    /\ ReadCapacityRequest("ReadCapacity16", 32) =>
           /\ last.result.tag = "Ok"
           /\ ~WrappedLastLba(8)
    /\ ReadCapacityRequest("ReadCapacity10", 8) =>
           /\ last.result.tag = "Ok"
           /\ ~WrappedLastLba(4)


\* the loop of handle_event is done with the first waiting chain of an
\* event on the control or the event queue
LeavesOtherQueue ==
    /\ pc = "loop" /\ device_event # 2
    /\ chains # <<>> /\ chains' = Tail(chains)

\* the chain goes to the used ring as it came: used length 0, no response
\* header written
ReturnedUnanswered ==
    /\ Len(used') = Len(used) + 1
    /\ SubSeq(used', 1, Len(used)) = used
    /\ used'[Len(used')].id = Head(chains).head
    /\ used'[Len(used')].len = 0
    /\ used'[Len(used')].header_writes = 0

\* C29: a descriptor chain that arrives on a queue other than the request
\* queue (index 2) only has its input discarded: when the daemon is done
\* with it, it is returned to the guest through the used ring with no
\* response bytes written, so the guest does not lose the descriptor.
\* (The daemon never comes back to a chain it has left, so a chain that is
\* not returned at that step is never returned.)
C29_OtherQueuesReturnChains == [][LeavesOtherQueue => ReturnedUnanswered]_vars


\* the request just handled, issued once more on the device as the first
\* run left it: the same chain with fresh buffers, the same behaviour of
\* the file
IssuedAgain ==
    handle_request_queue(
        <<target>>, images, Head(chains),
        [fault |-> last.fault, build |-> last.build,
         page_err |-> last.page_err])

\* no step changes a logical unit's block size, write-protected or
\* solid-state flag, the backing file it names, or the list of LUNs
ConfigurationKept == target' = target

====
